---- MODULE Spec2Model ----
(***************************************************************************)
(* Document Extraction & Structuring Engine of comptroller.war.gov:        *)
(*   - BudgetParser (src/src/budget_parser.py): baseline-table scan,       *)
(*     reprogramming-action extraction, document dispatch, Sankey flows    *)
(*   - CSVTransformer (src/src/csv_transformer.py) and rule_csv_parser     *)
(*     (src/src/rule_csv_parser.py): section segmentation and row assembly *)
(*                                                                         *)
(* Text is modelled at the level the regular expressions see it.  A        *)
(* baseline document is a sequence of lines, each line a record of what    *)
(* the scan's patterns find on it.  Matched substrings that the code       *)
(* converts (amounts, years) are sequences of one-character strings and    *)
(* are converted the way the code converts them.                           *)
(***************************************************************************)
EXTENDS Integers, Sequences, FiniteSets, TLC

(***************************************************************************)
(* Bounds of the model.                                                    *)
(***************************************************************************)
MaxLines == 3

MaxTokens == 4

MaxItems == 2

MaxDocs == 2

MaxRecords == 3

\* PDFs of one run of the pipeline
MaxPdfs == 3

\* links one run of the scraper discovers
MaxLinks == 2

\* invocations of ComptrollerScraper.run
MaxRuns == 2

(***************************************************************************)
(* Generic helpers.                                                        *)
(***************************************************************************)
\* Python's None
None == "None"

\* the string 'Unknown' (strings that hold years are character sequences)
Unknown == <<"Unknown">>

SeqsUpTo(S, n) == UNION {[1..k -> S] : k \in 0..n}

Max2(a, b) == IF a >= b THEN a ELSE b

Min2(a, b) == IF a <= b THEN a ELSE b

\* value of one decimal digit character
DigitVal(c) ==
    CASE c = "0" -> 0 [] c = "1" -> 1 [] c = "2" -> 2 [] c = "3" -> 3
      [] c = "4" -> 4 [] c = "5" -> 5 [] c = "6" -> 6 [] c = "7" -> 7
      [] c = "8" -> 8 [] c = "9" -> 9

\* str.replace(ch, ''): drop every occurrence of the character ch
StrRemove(s, ch) == SelectSeq(s, LAMBDA c : c # ch)

\* "ch in s"
StrHas(s, ch) == \E k \in 1..Len(s) : s[k] = ch

\* int(s) for a string of decimal digits
RECURSIVE StrToInt(_)
StrToInt(s) ==
    IF s = <<>> THEN 0
    ELSE 10 * StrToInt(SubSeq(s, 1, Len(s) - 1)) + DigitVal(s[Len(s)])

(***************************************************************************)
(* Lines of a document.  Each line records what the patterns of            *)
(* parse_dd1414_baseline and parse_reprogramming_action find on it:        *)
(*   len      length of the stripped line                                  *)
(*   approp   <<>> or <<group(1), group(2)>> of the appropriation-title    *)
(*            pattern (budget_parser.py:121-125)                           *)
(*   ba       <<>> or <<number, title>> of the Budget Activity pattern     *)
(*   subtotal 'Subtotal' in line or 'SUBTOTAL' in line                     *)
(*   amounts  findall of -?\d{1,3}(?:,\d{3})+ , each a character string    *)
(*   text     the text before the first number: its length and whether it  *)
(*            equals its own upper()                                       *)
(*   reprog   <<>> or <<[...]>>: the groups of approp_pattern              *)
(*            (budget_parser.py:46-53) when the line holds a line item     *)
(***************************************************************************)
Ln(len, approp, ba, subtotal, amounts, tlen, tupper, reprog) ==
    [len |-> len, approp |-> approp, ba |-> ba, subtotal |-> subtotal,
     amounts |-> amounts, text |-> [len |-> tlen, upper |-> tupper],
     reprog |-> reprog]

\* ""
LineBlank == Ln(0, <<>>, <<>>, FALSE, <<>>, 0, TRUE, <<>>)

\* "Appropriation Account Title: Military Personnel, Army, 2023/2023"
LineTitleArmy ==
    Ln(64, <<"Military Personnel", "Army">>, <<>>, FALSE, <<>>, 64, FALSE, <<>>)

\* "Appropriation Title: Research, Development, Marine Corps Subtotal 1,000"
LineTitleMarine ==
    Ln(71, <<"Research, Development", "Marine">>, <<>>, TRUE,
       << <<"1", ",", "0", "0", "0">> >>, 65, FALSE, <<>>)

\* "Appropriation: PROCUREMENT, Navy"
LineTitleNavy ==
    Ln(32, <<"PROCUREMENT", "Navy">>, <<>>, FALSE, <<>>, 32, FALSE, <<>>)

\* "Budget Activity 01: Pay and Allowances of Officers 13,599"
LineBA ==
    Ln(57, <<>>, <<"01", "Pay and Allowances of Officers">>, FALSE,
       << <<"1", "3", ",", "5", "9", "9">> >>, 50, FALSE, <<>>)

\* "Subtotal Officers 2,500"
LineSubtotal ==
    Ln(23, <<>>, <<>>, TRUE, << <<"2", ",", "5", "0", "0">> >>, 17, FALSE, <<>>)

\* "Basic Pay 1,500 2,000"
LineData ==
    Ln(21, <<>>, <<>>, FALSE,
       << <<"1", ",", "5", "0", "0">>, <<"2", ",", "0", "0", "0">> >>,
       9, FALSE, <<>>)

\* "Underexecution of strength -15,425"
LineDataNeg ==
    Ln(34, <<>>, <<>>, FALSE, << <<"-", "1", "5", ",", "4", "2", "5">> >>,
       26, FALSE, <<>>)

\* "TOTAL ARMY 1,234"
LineCapsHeader ==
    Ln(16, <<>>, <<>>, FALSE, << <<"1", ",", "2", "3", "4">> >>, 10, TRUE, <<>>)

\* "Pay 10,000"
LineShortText ==
    Ln(10, <<>>, <<>>, FALSE, << <<"1", "0", ",", "0", "0", "0">> >>, 3, FALSE, <<>>)

\* "Page 12"
LineShort == Ln(7, <<>>, <<>>, FALSE, <<>>, 7, FALSE, <<>>)

\* "Footnote marker 0,012 see 3,000"
LineSmallFirst ==
    Ln(31, <<>>, <<>>, FALSE,
       << <<"0", ",", "0", "1", "2">>, <<"3", ",", "0", "0", "0">> >>,
       15, FALSE, <<>>)

\* "Reference code 0,012"
LineSmall ==
    Ln(20, <<>>, <<>>, FALSE, << <<"0", ",", "0", "1", "2">> >>, 14, FALSE, <<>>)

\* a line item text of 120 characters followed by " 5,000"
LineLongText ==
    Ln(126, <<>>, <<>>, FALSE, << <<"5", ",", "0", "0", "0">> >>, 120, FALSE, <<>>)

\* "Operation and Maintenance, Army, 05/05 +21" followed within 500 characters
\* by "Budget Activity 1: Operating Forces"
ItemOMArmy ==
    [category |-> "Operation and Maintenance", branch |-> "Army",
     g3 |-> <<"0", "5">>, g4 |-> <<"0", "5">>, g5 |-> <<"+", "2", "1">>,
     ba |-> <<"1", [head |-> "Operating Forces", tail |-> ""]>>]

\* "Procurement, Navy, 05/06 -1,500", no Budget Activity header after it
ItemProcNavy ==
    [category |-> "Procurement", branch |-> "Navy",
     g3 |-> <<"0", "5">>, g4 |-> <<"0", "6">>,
     g5 |-> <<"-", "1", ",", "5", "0", "0">>, ba |-> <<>>]

\* "Operation and Maintenance, Army, 99/99 300" followed by a Budget Activity
\* header whose title is longer than 40 characters
ItemOMArmyLong ==
    [category |-> "Operation and Maintenance", branch |-> "Army",
     g3 |-> <<"9", "9">>, g4 |-> <<"9", "9">>, g5 |-> <<"3", "0", "0">>,
     ba |-> <<"4", [head |-> "Administration and Servicewide Activitie",
                    tail |-> "s (continued)"]>>]

\* what -?\d{1,3}(?:,\d{3})+ finds in a matched amount: the amount without a
\* leading '+', when it has a comma group
AmountsOfItem(g5) == IF StrHas(g5, ",") THEN << StrRemove(g5, "+") >> ELSE <<>>

\* the line that holds one line item
ItemLine(item) ==
    Ln(38 + Len(item.g5), <<>>, <<>>, FALSE, AmountsOfItem(item.g5), 38, FALSE,
       << item >>)

\* a table of two appropriations, the second without a Budget Activity
\* header of its own
BaselineTexts == { <<LineTitleArmy, LineBA, LineTitleNavy, LineData>> }

BaselineLines ==
    {LineBlank, LineTitleArmy, LineTitleMarine, LineTitleNavy, LineBA,
     LineSubtotal, LineData, LineDataNeg, LineCapsHeader, LineShortText,
     LineShort, LineSmallFirst, LineSmall, LineLongText}

(***************************************************************************)
(* State.                                                                  *)
(***************************************************************************)
VARIABLES
    \* BudgetParser.parse_dd1414_baseline
    text_lines,               \* text.split('\n'), each line stripped
    fiscal_year,              \* from the filename, or 'Unknown'
    line_i,                   \* the loop index i
    current_branch,
    current_category,
    current_budget_activity,
    current_ba_number,
    lines,                    \* the records emitted so far
    scan_pc,                  \* "idle" | "scan" | "done"
    \* CSVTransformer.parse_ocr_text / rule_csv_parser.parse_text
    ocr_text,                 \* the document text, a sequence of tokens
    variant,                  \* "csv" (CSVTransformer) | "rule" (rule_csv_parser)
    sections,                 \* csv: offsets; rule: <<start, end>> pairs
    sec_i,                    \* index of the next section to process
    rows,                     \* the rows appended so far
    seg_pc,                   \* "idle" | "split" | "loop" | "done" | "raised"
    \* BudgetParser.parse_reprogramming_action
    reprog_text,              \* the lines of the text
    reprog_i,                 \* how far finditer has come
    reprog_lines,             \* the records appended so far
    reprog_pc,                \* "idle" | "scan" | "done"
    \* fiscal-year normalization
    year_site,                \* which extractor normalizes
    year_in,                  \* <<group(1), group(2)>> of the pattern, <<>> for no group
    year_out,                 \* the (start, end) pair produced
    year_pc,                  \* "idle" | "match" | "done"
    \* BudgetParser.process_all_documents
    ocr_results,
    res_i,                    \* index of the next result
    all_lines,
    proc_pc,                  \* "idle" | "loop" | "done"
    \* BudgetParser.create_sankey_data
    df,                       \* the rows of the DataFrame
    flows,
    flow_dict,                \* entries in insertion order
    aggregated_flows,
    metadata,                 \* the 'metadata' of the returned dict
    sk_i,                     \* loop index of the running phase
    sk_pc,                    \* "idle" | "reprog" | "baseline" | "aggregate" | "convert" | "done"
    \* extract_enhanced_data / extract_key_data: the amount loop
    amount_variant,           \* "enhanced" (DD1414EnhancedScraper) | "fast" (DD1414FastScraper)
    amount_matches,           \* the strings re.findall returned
    amount_dates,             \* the dates the date patterns found
    amount_i,                 \* index of the next match
    amount_parsed,            \* what parse_amount returned, match by match
    amounts_list,             \* the list `amounts`
    record,                   \* the DD1414Record being built
    amount_pc,                \* "idle" | "amounts" | "done"
    \* CSVTransformer.batch_transform
    batch_results,            \* the results, as the CSV transformer reads them
    batch_i,                  \* index of the next result
    output_files,
    csv_written,              \* the CSV files written, in order
    batch_pc,                 \* "idle" | "loop" | "done"
    \* main() of budget_parser.py, run twice on the same results
    main_pc,                  \* "idle" | "run" | "failed" | "done"
    run_no,                   \* 1 for the first run, 2 for the second
    first_lines,              \* the records of the first run
    first_flows,              \* the 'flows' of the first run
    first_metadata,           \* the 'metadata' of the first run
    \* DD1414EnhancedScraper.process_dd1414_pdf and the text extraction under it
    page_count,               \* doc.page_count
    direct_pages,             \* what page.get_text() returned, page by page
    ocr_pages,                \* what the OCR engine returned, page by page
    page_num,                 \* the pages the OCR loop has done
    full_text,
    confidence_scores,
    raised_in,                \* the call that raised: "none" | "stat" | "direct" | "ocr"
    hybrid_result,            \* (text, method, confidence) of extract_text_hybrid
    dd_record,                \* what process_dd1414_pdf returned
    hyb_pc,                   \* "idle" | "stat" | "direct" | "ocr" | "process" | "done"
    \* main.main: OCR, CSV transformation and the processed_files bookkeeping
    pdf_files,                \* the PDFs left to process, in glob order
    pipeline_results,         \* what batch_process returned for them
    csv_files,                \* what batch_transform returned
    processed_files,          \* metadata['processed_files']
    saved_processed_files,    \* the processed_files of data/metadata.json
    pipe_pc,                  \* "idle" | "ocr" | "transform" | "update" | "save" | "done"
    \* ComptrollerScraper.run over one metadata file and one output directory
    pdfs,                     \* the links this run discovered, one per URL
    new_pdfs,                 \* the links this run downloads
    download_i,               \* position of the download loop in new_pdfs
    scraper_metadata,         \* self.metadata
    metadata_file,            \* data/metadata.json
    disk,                     \* names of the files of the output directory
    runs_done,                \* invocations of run that have returned
    downloaded_count,
    scraper_pc,               \* "idle" | "start" | "check" | "get" | "done"
    \* OCRProcessor.extract_from_pdf on one PDF
    use_ocr,                  \* the argument use_ocr
    pdf_exists,               \* pdf_path.exists()
    pdf_pages,                \* per page, what direct extraction and what OCR would read
    image_i,                  \* position of the OCR loop in images
    all_text,
    extract_result,           \* the dict result
    extract_pc                \* "idle" | "start" | "direct" | "convert" | "ocr" | "done" | "raised"

scanVars == <<text_lines, fiscal_year, line_i, current_branch, current_category,
              current_budget_activity, current_ba_number, lines, scan_pc>>

segVars == <<ocr_text, variant, sections, sec_i, rows, seg_pc>>

reprogVars == <<reprog_text, reprog_i, reprog_lines, reprog_pc>>

yearVars == <<year_site, year_in, year_out, year_pc>>

procVars == <<ocr_results, res_i, all_lines, proc_pc>>

sankeyVars == <<df, flows, flow_dict, aggregated_flows, metadata, sk_i, sk_pc>>

amountVars == <<amount_variant, amount_matches, amount_dates, amount_i, amount_parsed,
                amounts_list, record, amount_pc>>

batchVars == <<batch_results, batch_i, output_files, csv_written, batch_pc>>

mainVars == <<main_pc, run_no, first_lines, first_flows, first_metadata>>

hybridVars == <<page_count, direct_pages, ocr_pages, page_num, full_text,
                confidence_scores, raised_in, hybrid_result, dd_record, hyb_pc>>

pipeVars == <<pdf_files, pipeline_results, csv_files, processed_files,
              saved_processed_files, pipe_pc>>

scraperVars == <<pdfs, new_pdfs, download_i, scraper_metadata, metadata_file, disk,
                 runs_done, downloaded_count, scraper_pc>>

extractVars == <<use_ocr, pdf_exists, pdf_pages, image_i, all_text, extract_result,
                 extract_pc>>

vars == <<scanVars, segVars, reprogVars, yearVars, procVars, sankeyVars, amountVars,
          batchVars, mainVars, hybridVars, pipeVars, scraperVars, extractVars>>

notScanVars == <<segVars, reprogVars, yearVars, procVars, sankeyVars, amountVars,
                 batchVars, mainVars, hybridVars, pipeVars, scraperVars, extractVars>>

notSegVars == <<scanVars, reprogVars, yearVars, procVars, sankeyVars, amountVars,
                batchVars, mainVars, hybridVars, pipeVars, scraperVars, extractVars>>

notReprogVars == <<scanVars, segVars, yearVars, procVars, sankeyVars, amountVars,
                   batchVars, mainVars, hybridVars, pipeVars, scraperVars, extractVars>>

notYearVars == <<scanVars, segVars, reprogVars, procVars, sankeyVars, amountVars,
                 batchVars, mainVars, hybridVars, pipeVars, scraperVars, extractVars>>

notProcVars == <<scanVars, segVars, reprogVars, yearVars, sankeyVars, amountVars,
                 batchVars, mainVars, hybridVars, pipeVars, scraperVars, extractVars>>

notSankeyVars == <<scanVars, segVars, reprogVars, yearVars, procVars, amountVars,
                   batchVars, mainVars, hybridVars, pipeVars, scraperVars, extractVars>>

notAmountVars == <<scanVars, segVars, reprogVars, yearVars, procVars, sankeyVars,
                   batchVars, mainVars, hybridVars, pipeVars, scraperVars, extractVars>>

notBatchVars == <<scanVars, segVars, reprogVars, yearVars, procVars, sankeyVars,
                  amountVars, mainVars, hybridVars, pipeVars, scraperVars, extractVars>>

notMainVars == <<scanVars, segVars, reprogVars, yearVars, procVars, sankeyVars,
                 amountVars, batchVars, hybridVars, pipeVars, scraperVars, extractVars>>

notHybridVars == <<scanVars, segVars, reprogVars, yearVars, procVars, sankeyVars,
                   amountVars, batchVars, mainVars, pipeVars, scraperVars, extractVars>>

notPipeVars == <<scanVars, segVars, reprogVars, yearVars, procVars, sankeyVars,
                 amountVars, batchVars, mainVars, hybridVars, scraperVars, extractVars>>

notScraperVars == <<scanVars, segVars, reprogVars, yearVars, procVars, sankeyVars,
                    amountVars, batchVars, mainVars, hybridVars, pipeVars, extractVars>>

notExtractVars == <<scanVars, segVars, reprogVars, yearVars, procVars, sankeyVars,
                    amountVars, batchVars, mainVars, hybridVars, pipeVars, scraperVars>>

(***************************************************************************)
(* BudgetParser.parse_dd1414_baseline                                      *)
(***************************************************************************)
\* 'Research' in current_category (case-sensitive substring test)
HasResearch(cat) == cat \in {"Research, Development", "Research and Evaluation"}

\* 'Marine' in current_branch
HasMarine(br) == br \in {"Marine", "Marines"}

NormCategory(cat) ==
    IF HasResearch(cat) THEN "Research, Development, Test, and Evaluation" ELSE cat

NormBranch(br) == IF HasMarine(br) THEN "Marines" ELSE br

\* int(amt.replace(',', '').replace('-', ''))
ParsedAmount(amt) == StrToInt(StrRemove(StrRemove(amt, ","), "-"))

RECURSIVE MaxOf(_)
MaxOf(s) == IF Len(s) = 1 THEN s[1] ELSE Max2(s[1], MaxOf(Tail(s)))

\* MainAmount that takes the first number of the line
MainAmountFirst(amounts) == ParsedAmount(amounts[1])

\* max(parsed_amounts)
MainAmount(amounts) == MaxOf([k \in 1..Len(amounts) |-> ParsedAmount(amounts[k])])

\* any('-' in amt for amt in amounts)
IsDecrease(amounts) == \E k \in 1..Len(amounts) : StrHas(amounts[k], "-")

\* `x or ''`
OrEmpty(x) == IF x = None THEN "" ELSE x

\* Python truthiness of a pointer: None and '' are falsy
Truthy(x) == x # None /\ x # ""

\* the record appended at budget_parser.py:180-192 (line_no is the index i)
BaselineRecord(st, line, idx, fy) ==
    [fiscal_year |-> fy,
     appropriation_category |-> st.current_category,
     branch |-> st.current_branch,
     budget_activity_number |-> OrEmpty(st.current_ba_number),
     budget_activity_title |-> OrEmpty(st.current_budget_activity),
     program_element |-> [len |-> Min2(line.text.len, 100), upper |-> line.text.upper],
     budget_amount |-> MainAmount(line.amounts),
     is_decrease |-> IsDecrease(line.amounts),
     raw_amounts |-> SubSeq(line.amounts, 1, Min2(3, Len(line.amounts))),
     type |-> "baseline",
     line_no |-> idx]

\* EmitsRecord without the test of the main amount
EmitsRecordNoFloor(st, line) ==
    /\ Len(line.amounts) > 0
    /\ Truthy(st.current_category)
    /\ Truthy(st.current_branch)
    /\ ~(line.text.len < 5)
    /\ ~(line.text.upper /\ line.text.len < 15)

\* EmitsRecord without the test of the two pointers
EmitsRecordNoPointers(st, line) ==
    /\ Len(line.amounts) > 0
    /\ ~(line.text.len < 5)
    /\ ~(line.text.upper /\ line.text.len < 15)
    /\ ~(MainAmount(line.amounts) < 1000)

\* whether the data-line branch appends a record (budget_parser.py:157-175)
EmitsRecord(st, line) ==
    /\ Len(line.amounts) > 0
    /\ Truthy(st.current_category)
    /\ Truthy(st.current_branch)
    /\ ~(line.text.len < 5)
    /\ ~(line.text.upper /\ line.text.len < 15)
    /\ ~(MainAmount(line.amounts) < 1000)

\* ScanLine with a Budget Activity header that also clears the
\* appropriation pointers
ScanLineResetOnBA(st, line, idx, fy) ==
    IF line.len = 0 \/ line.len < 10 THEN st
    ELSE IF line.approp # <<>> THEN
        [st EXCEPT !.current_category = NormCategory(line.approp[1]),
                   !.current_branch = NormBranch(line.approp[2])]
    ELSE IF line.ba # <<>> THEN
        [st EXCEPT !.current_ba_number = line.ba[1],
                   !.current_budget_activity = line.ba[2],
                   !.current_category = None,
                   !.current_branch = None]
    ELSE IF line.subtotal THEN st
    ELSE IF EmitsRecord(st, line) THEN
        [st EXCEPT !.lines = Append(st.lines, BaselineRecord(st, line, idx, fy))]
    ELSE st

\* ScanLine with an appropriation title that also clears the budget
\* activity pointers
ScanLineTitleResetsBA(st, line, idx, fy) ==
    IF line.len = 0 \/ line.len < 10 THEN st
    ELSE IF line.approp # <<>> THEN
        [st EXCEPT !.current_category = NormCategory(line.approp[1]),
                   !.current_branch = NormBranch(line.approp[2]),
                   !.current_ba_number = None,
                   !.current_budget_activity = None]
    ELSE IF line.ba # <<>> THEN
        [st EXCEPT !.current_ba_number = line.ba[1],
                   !.current_budget_activity = line.ba[2]]
    ELSE IF line.subtotal THEN st
    ELSE IF EmitsRecord(st, line) THEN
        [st EXCEPT !.lines = Append(st.lines, BaselineRecord(st, line, idx, fy))]
    ELSE st

\* one iteration of the loop at budget_parser.py:114-192
ScanLine(st, line, idx, fy) ==
    IF line.len = 0 \/ line.len < 10 THEN st
    ELSE IF line.approp # <<>> THEN
        [st EXCEPT !.current_category = NormCategory(line.approp[1]),
                   !.current_branch = NormBranch(line.approp[2])]
    ELSE IF line.ba # <<>> THEN
        [st EXCEPT !.current_ba_number = line.ba[1],
                   !.current_budget_activity = line.ba[2]]
    ELSE IF line.subtotal THEN st
    ELSE IF EmitsRecord(st, line) THEN
        [st EXCEPT !.lines = Append(st.lines, BaselineRecord(st, line, idx, fy))]
    ELSE st

ScanStart ==
    [current_branch |-> None, current_category |-> None,
     current_budget_activity |-> None, current_ba_number |-> None,
     lines |-> <<>>]

ScanState ==
    [current_branch |-> current_branch, current_category |-> current_category,
     current_budget_activity |-> current_budget_activity,
     current_ba_number |-> current_ba_number, lines |-> lines]

RECURSIVE ScanFrom(_, _, _, _)
ScanFrom(st, tl, idx, fy) ==
    IF idx > Len(tl) THEN st
    ELSE ScanFrom(ScanLine(st, tl[idx], idx, fy), tl, idx + 1, fy)

\* the list parse_dd1414_baseline returns
ParseBaseline(tl, fy) == ScanFrom(ScanStart, tl, 1, fy).lines

BaselineStep ==
    /\ scan_pc = "scan"
    /\ line_i <= Len(text_lines)
    /\ LET st == ScanLine(ScanState, text_lines[line_i], line_i, fiscal_year) IN
        /\ current_branch' = st.current_branch
        /\ current_category' = st.current_category
        /\ current_budget_activity' = st.current_budget_activity
        /\ current_ba_number' = st.current_ba_number
        /\ lines' = st.lines
    /\ line_i' = line_i + 1
    /\ UNCHANGED <<text_lines, fiscal_year, scan_pc>>
    /\ UNCHANGED notScanVars

BaselineReturn ==
    /\ scan_pc = "scan"
    /\ line_i > Len(text_lines)
    /\ scan_pc' = "done"
    /\ UNCHANGED <<text_lines, fiscal_year, line_i, current_branch, current_category,
                   current_budget_activity, current_ba_number, lines>>
    /\ UNCHANGED notScanVars

NextScan == BaselineStep \/ BaselineReturn

(***************************************************************************)
(* Document text of the section parsers: a sequence of tokens, each what   *)
(* one pattern of csv_transformer.py:47-78 / rule_csv_parser.py:18-31      *)
(* matches, or a gap of n characters that no pattern matches.  A token     *)
(* that is a match is followed by one separating character (a blank or a   *)
(* line break), so that matches never touch.                               *)
(***************************************************************************)
\* "ARMY INCREASE", "NAVY DECREASE", "AIR FORCE INCREASE"
TokArmy == [kind |-> "marker", b |-> "ARMY"]

TokNavy == [kind |-> "marker", b |-> "NAVY"]

TokAirForce == [kind |-> "marker", b |-> "AIR FORCE"]

\* "AIR  FORCE INCREASE": the words of the marker two spaces apart
TokAirForceWide == [kind |-> "marker", b |-> "AIR  FORCE"]

\* "Operation and Maintenance"
TokCat == [kind |-> "cat", c |-> "Operation and Maintenance"]

\* "Procurement"
TokProc == [kind |-> "cat", c |-> "Procurement"]

\* "1,500"
TokAmt == [kind |-> "amt", s |-> <<"1", ",", "5", "0", "0">>]

\* "\n" and a few words that no pattern matches, ending in a separator
TokGapShort == [kind |-> "gap", n |-> 5]

\* a page of running text
TokGapLong == [kind |-> "gap", n |-> 990]

\* an amount: its capture group
Amt(s) == [kind |-> "amt", s |-> s]

\* texts with sections of two, three and five amounts
AmountTexts ==
    { <<TokArmy, Amt(<<"1">>), Amt(<<"2", ",", "0", "0", "0">>), Amt(<<"3">>),
        Amt(<<"4">>), Amt(<<"5">>)>>,
      <<TokGapShort, TokNavy, Amt(<<"7">>), TokAmt, TokArmy, Amt(<<"2">>),
        Amt(<<"1">>), Amt(<<"3">>)>> }

\* texts with a marker whose words are two spaces apart
MarkerTexts ==
    { <<TokAirForceWide, TokAmt>>,
      <<TokGapShort, TokAirForceWide, TokAmt, TokNavy, TokAmt>>,
      <<TokAirForceWide, TokArmy, TokCat>> }

Tokens ==
    {TokArmy, TokNavy, TokAirForce, TokCat, TokProc, TokAmt, TokGapShort, TokGapLong}

\* number of characters of the match a token stands for
MatchLen(t) ==
    CASE t.kind = "marker" ->
           (CASE t.b = "ARMY" -> 13 [] t.b = "NAVY" -> 13 [] t.b = "AIR FORCE" -> 18
              [] t.b = "AIR  FORCE" -> 19)
      [] t.kind = "cat" -> (IF t.c = "Operation and Maintenance" THEN 25 ELSE 11)
      [] t.kind = "amt" -> Len(t.s)
      [] t.kind = "gap" -> t.n

\* number of characters of a token: the match and its separator
TokLen(t) == IF t.kind = "gap" THEN t.n ELSE MatchLen(t) + 1

RECURSIVE TextLen(_)
\* len(text)
TextLen(text) == IF text = <<>> THEN 0 ELSE TokLen(Head(text)) + TextLen(Tail(text))

\* character offset at which token k of the text starts
Offset(text, k) == TextLen(SubSeq(text, 1, k - 1))

\* tokens of the given kind whose match lies wholly inside text[lo:hi]
TokensIn(text, kind, lo, hi) ==
    {k \in 1..Len(text) :
        /\ text[k].kind = kind
        /\ lo <= Offset(text, k)
        /\ Offset(text, k) + MatchLen(text[k]) <= hi}

RECURSIVE MarkerStartsFrom(_, _)
MarkerStartsFrom(text, k) ==
    IF k > Len(text) THEN <<>>
    ELSE IF text[k].kind = "marker"
         THEN <<Offset(text, k)>> \o MarkerStartsFrom(text, k + 1)
         ELSE MarkerStartsFrom(text, k + 1)

\* [m.start() for m in branch_pattern.finditer(text)]
MarkerStarts(text) == MarkerStartsFrom(text, 1)

(***************************************************************************)
(* CSVTransformer (csv_transformer.py)                                     *)
(***************************************************************************)
BranchWindow == 1000

CategoryWindow == 500

\* _extract_branch: the patterns are tried in a fixed order over
\* text[max(0, position - 1000):position]
ExtractBranch(text, position) ==
    LET w == TokensIn(text, "marker", Max2(0, position - BranchWindow), position)
        has(b) == \E k \in w : text[k].b = b
    IN  IF has("ARMY") THEN "Army"
        ELSE IF has("NAVY") THEN "Navy"
        ELSE IF has("AIR FORCE") \/ has("AIR  FORCE") THEN "Air Force"
        ELSE ""

\* _extract_appropriation_category(section_text, 0): the patterns are tried
\* in a fixed order over section_text[max(0, -500):500]
ExtractCategory(text, start, end) ==
    LET w == TokensIn(text, "cat", start, Min2(end, start + CategoryWindow))
        has(c) == \E k \in w : text[k].c = c
    IN  IF has("Operation and Maintenance") THEN "Operation and Maintenance"
        ELSE IF has("Procurement") THEN "Procurement"
        ELSE ""

RECURSIVE AmountsFrom(_, _, _, _)
AmountsFrom(text, k, start, end) ==
    IF k > Len(text) THEN <<>>
    ELSE IF k \in TokensIn(text, "amt", start, end)
         THEN <<text[k].s>> \o AmountsFrom(text, k + 1, start, end)
         ELSE AmountsFrom(text, k + 1, start, end)

\* _extract_amounts(section_text) / find_amounts(snippet)
ExtractAmounts(text, start, end) == AmountsFrom(text, 1, start, end)

\* CsvSections without the end position
CsvSectionsNoEnd(text) == MarkerStarts(text)

\* csv_transformer.py:182-186
CsvSections(text) == MarkerStarts(text) \o <<TextLen(text)>>

\* Slot that fills a column only when a later amount exists
SlotOffByOne(amounts, k) == IF Len(amounts) >= k + 1 THEN amounts[k] ELSE <<"-">>

\* amounts[k - 1] if len(amounts) > k - 1 else '-'
Slot(amounts, k) == IF Len(amounts) >= k THEN amounts[k] ELSE <<"-">>

Row(branch, category, amounts, start, end) ==
    [branch |-> branch,
     appropriation_category |-> category,
     program_base_congressional |-> Slot(amounts, 1),
     program_base_dod |-> Slot(amounts, 2),
     reprogramming_amount |-> Slot(amounts, 3),
     revised_program_total |-> Slot(amounts, 4),
     start |-> start,
     end |-> end]

\* CsvKeeps that asks for a branch
CsvKeepsBranchOnly(branch, category, amounts) == branch # ""

\* `if branch or category or amounts` (csv_transformer.py:221)
CsvKeeps(branch, category, amounts) ==
    branch # "" \/ category # "" \/ amounts # <<>>

\* one iteration of the loop at csv_transformer.py:189-240
CsvSectionRows(text, start, end) ==
    LET branch == ExtractBranch(text, start)
        category == ExtractCategory(text, start, end)
        amounts == ExtractAmounts(text, start, end)
    IN  IF CsvKeeps(branch, category, amounts)
        THEN << Row(branch, category, amounts, start, end) >>
        ELSE <<>>

(***************************************************************************)
(* rule_csv_parser (rule_csv_parser.py)                                    *)
(***************************************************************************)
\* extract_sections
ExtractSections(text) ==
    LET idxs == MarkerStarts(text)
        all == idxs \o <<TextLen(text)>>
    IN  IF idxs = <<>> THEN << <<0, TextLen(text)>> >>
        ELSE [k \in 1..Len(idxs) |-> <<all[k], all[k + 1]>>]

\* the exception a dict raises for a key it does not hold
KeyError == "KeyError"

\* the dict of rule_csv_parser.py:55, looked up with m.group(1).upper()
BranchName(b) ==
    CASE b = "ARMY" -> "Army" [] b = "NAVY" -> "Navy" [] b = "AIR FORCE" -> "Air Force"
      [] OTHER -> KeyError

\* find_branch: BRANCH_REGEX.search returns the first match of
\* text[max(0, pos - 1000):pos]
FindBranch(text, pos) ==
    LET w == TokensIn(text, "marker", Max2(0, pos - BranchWindow), pos)
    IN  IF w = {} THEN ""
        ELSE BranchName(text[CHOOSE k \in w : \A j \in w : k <= j].b)

\* find_category(snippet): the patterns of CATEGORY_PATTERNS are tried in
\* the order of the dict over the whole snippet
FindCategory(text, start, end) ==
    LET w == TokensIn(text, "cat", start, end)
        has(c) == \E k \in w : text[k].c = c
    IN  IF has("Operation and Maintenance") THEN "Operation and Maintenance"
        ELSE IF has("Procurement") THEN "Procurement"
        ELSE ""

\* any([branch, category, amounts]) (rule_csv_parser.py:130)
RuleKeeps(branch, category, amounts) ==
    branch # "" \/ category # "" \/ amounts # <<>>

\* one iteration of the loop at rule_csv_parser.py:98-131
RuleSectionRows(text, start, end) ==
    LET branch == FindBranch(text, start)
        category == FindCategory(text, start, end)
        amounts == ExtractAmounts(text, start, end)
    IN  IF RuleKeeps(branch, category, amounts)
        THEN << Row(branch, category, amounts, start, end) >>
        ELSE <<>>

(***************************************************************************)
(* The section loop of both parsers.                                       *)
(***************************************************************************)
\* the <<start, end>> pairs the loop visits
SectionSpans ==
    IF variant = "csv"
    THEN [k \in 1..(Len(sections) - 1) |-> <<sections[k], sections[k + 1]>>]
    ELSE sections

CsvSplit ==
    /\ seg_pc = "split"
    /\ variant = "csv"
    /\ sections' = CsvSections(ocr_text)
    /\ seg_pc' = "loop"
    /\ UNCHANGED <<ocr_text, variant, sec_i, rows>>
    /\ UNCHANGED notSegVars

RuleSplit ==
    /\ seg_pc = "split"
    /\ variant = "rule"
    /\ sections' = ExtractSections(ocr_text)
    /\ seg_pc' = "loop"
    /\ UNCHANGED <<ocr_text, variant, sec_i, rows>>
    /\ UNCHANGED notSegVars

CsvSection ==
    /\ seg_pc = "loop"
    /\ variant = "csv"
    /\ sec_i <= Len(sections) - 1
    /\ rows' = rows \o CsvSectionRows(ocr_text, sections[sec_i], sections[sec_i + 1])
    /\ sec_i' = sec_i + 1
    /\ UNCHANGED <<ocr_text, variant, sections, seg_pc>>
    /\ UNCHANGED notSegVars

RuleSection ==
    /\ seg_pc = "loop"
    /\ variant = "rule"
    /\ sec_i <= Len(sections)
    /\ IF FindBranch(ocr_text, sections[sec_i][1]) = KeyError
       THEN seg_pc' = "raised" /\ UNCHANGED rows
       ELSE /\ rows' = rows \o RuleSectionRows(ocr_text, sections[sec_i][1],
                                               sections[sec_i][2])
            /\ UNCHANGED seg_pc
    /\ sec_i' = sec_i + 1
    /\ UNCHANGED <<ocr_text, variant, sections>>
    /\ UNCHANGED notSegVars

SegReturn ==
    /\ seg_pc = "loop"
    /\ sec_i > Len(SectionSpans)
    /\ seg_pc' = "done"
    /\ UNCHANGED <<ocr_text, variant, sections, sec_i, rows>>
    /\ UNCHANGED notSegVars

NextSeg == CsvSplit \/ RuleSplit \/ CsvSection \/ RuleSection \/ SegReturn

(***************************************************************************)
(* BudgetParser.parse_reprogramming_action                                 *)
(***************************************************************************)
\* int(match.group(5).replace(',', '').replace('+', '').replace('-', ''))
ItemAmount(g5) == StrToInt(StrRemove(StrRemove(StrRemove(g5, ","), "+"), "-"))

\* IsIncrease that asks for an explicit '+'
IsIncreasePlusOnly(g5) == StrHas(g5, "+")

\* '+' in match.group(5) or '-' not in match.group(5)
IsIncrease(g5) == StrHas(g5, "+") \/ ~StrHas(g5, "-")

\* ItemYear without the century
ItemYearAsMatched(g) == g

\* '20' + match.group(3)
ItemYear(g) == <<"2", "0">> \o g

\* the record appended at budget_parser.py:78-90
ReprogRecord(item) ==
    [fiscal_year_start |-> ItemYear(item.g3),
     fiscal_year_end |-> ItemYear(item.g4),
     appropriation_category |-> item.category,
     branch |-> item.branch,
     budget_activity_number |-> IF item.ba = <<>> THEN "" ELSE item.ba[1],
     budget_activity_title |->
         IF item.ba = <<>> THEN [head |-> "", tail |-> ""] ELSE item.ba[2],
     reprogramming_amount |->
         IF IsIncrease(item.g5) THEN ItemAmount(item.g5) ELSE 0 - ItemAmount(item.g5),
     direction |-> IF IsIncrease(item.g5) THEN "increase" ELSE "decrease",
     g5 |-> item.g5,
     type |-> "reprogramming_action"]

\* the records of the matches found on one line
ReprogOfLine(line) ==
    IF line.reprog = <<>> THEN <<>> ELSE << ReprogRecord(line.reprog[1]) >>

RECURSIVE ParseReprog(_)
\* the list parse_reprogramming_action returns
ParseReprog(tl) ==
    IF tl = <<>> THEN <<>> ELSE ReprogOfLine(Head(tl)) \o ParseReprog(Tail(tl))

ReprogStep ==
    /\ reprog_pc = "scan"
    /\ reprog_i <= Len(reprog_text)
    /\ reprog_lines' = reprog_lines \o ReprogOfLine(reprog_text[reprog_i])
    /\ reprog_i' = reprog_i + 1
    /\ UNCHANGED <<reprog_text, reprog_pc>>
    /\ UNCHANGED notReprogVars

ReprogReturn ==
    /\ reprog_pc = "scan"
    /\ reprog_i > Len(reprog_text)
    /\ reprog_pc' = "done"
    /\ UNCHANGED <<reprog_text, reprog_i, reprog_lines>>
    /\ UNCHANGED notReprogVars

NextReprog == ReprogStep \/ ReprogReturn

\* matched amounts [+\-]?\d{1,3}(?:,\d{3})* the extraction is run on
AmountStrings ==
    {sign \o first \o rest :
        sign \in {<<>>, <<"+">>, <<"-">>},
        first \in {<<"0">>, <<"7">>, <<"2", "1">>},
        rest \in {<<>>, <<",", "5", "0", "0">>}}

ReprogLines ==
    {ItemLine([ItemProcNavy EXCEPT !.g5 = a]) : a \in AmountStrings}
    \cup {ItemLine(ItemOMArmy), LineData}

\* "ARMY INCREASE"
LineMarkerArmy == Ln(13, <<>>, <<>>, FALSE, <<>>, 13, TRUE, <<>>)

\* "Budget Activity 1: Operating Forces"
LineBAOperating ==
    Ln(35, <<>>, <<"1", "Operating Forces">>, FALSE, <<>>, 35, FALSE, <<>>)

\* "Explanation: Transfer for readiness."
LineExplanation == Ln(36, <<>>, <<>>, FALSE, <<>>, 36, FALSE, <<>>)

\* the text of the docstring of parse_reprogramming_action
\* (budget_parser.py:27-30) under an "ARMY INCREASE" marker line
ExampleText ==
    <<LineMarkerArmy, ItemLine(ItemOMArmy), LineBAOperating, LineExplanation>>

(***************************************************************************)
(* Fiscal-year normalization, as each extractor does it.                   *)
(***************************************************************************)
\* if len(y) == 2: y = '20' + y
TwoDigitYear(y) == IF Len(y) = 2 THEN <<"2", "0">> \o y ELSE y

\* CSVTransformer._extract_fiscal_years on a match with groups g1, g2
ExtractFiscalYears(g1, g2) ==
    LET year_start == g1
        year_end == IF g2 # <<>> THEN g2 ELSE year_start
    IN  <<TwoDigitYear(year_start), TwoDigitYear(year_end)>>

\* rule_csv_parser.find_fys on a match with groups g1, g2
FindFys(g1, g2) ==
    LET y1 == g1
        y2 == IF g2 # <<>> THEN g2 ELSE y1
    IN  <<TwoDigitYear(y1), TwoDigitYear(y2)>>

\* parse_reprogramming_action, budget_parser.py:35-42: group(1) only
HeaderFiscalYear(g1) == TwoDigitYear(g1)

YearSites == {"csv_transformer", "rule_csv_parser", "reprog_header", "reprog_item"}

NormalizeYears(site, g) ==
    CASE site = "csv_transformer" -> ExtractFiscalYears(g[1], g[2])
      [] site = "rule_csv_parser" -> FindFys(g[1], g[2])
      [] site = "reprog_header" -> <<HeaderFiscalYear(g[1])>>
      [] site = "reprog_item" -> <<ItemYear(g[1]), ItemYear(g[2])>>

\* matches of (\d{2,4})[/-]?(\d{2,4})? and of (\d{2})/(\d{2})
YearDigits == {"0", "5", "7", "9"}

TwoDigitYears == {<<a, b>> : a \in YearDigits, b \in YearDigits}

YearStrings ==
    TwoDigitYears \cup {<<"1", "9", "9", "5">>, <<"2", "0", "0", "7">>, <<"1", "9", "9">>}

YearInputs(site) ==
    CASE site \in {"csv_transformer", "rule_csv_parser"} ->
           {<<a, b>> : a \in YearStrings, b \in {<<>>, <<"0", "7">>, <<"9", "9">>}}
      [] site = "reprog_header" -> {<<a>> : a \in YearStrings}
      [] site = "reprog_item" ->
           {<<a, b>> : a \in TwoDigitYears, b \in {<<"0", "7">>, <<"9", "9">>}}

YearNormalize ==
    /\ year_pc = "match"
    /\ year_out' = NormalizeYears(year_site, year_in)
    /\ year_pc' = "done"
    /\ UNCHANGED <<year_site, year_in>>
    /\ UNCHANGED notYearVars

NextYear == YearNormalize

(***************************************************************************)
(* BudgetParser.process_all_documents                                      *)
(***************************************************************************)
\* a result of the OCR stage: what the filename tests of budget_parser.py:
\* 218-221 see in `file`, whether the result has an 'error' key, whether it
\* has a 'text' key, the lines of the text, the FY the filename carries
Doc(kind, error, has_text, text, fy) ==
    [kind |-> kind, error |-> error, has_text |-> has_text, text |-> text, fy |-> fy]

\* DocLines with the comparison >= in place of >
DocLinesTieBaseline(doc) ==
    IF doc.kind \in {"DD_1414", "Base_for_Reprogramming"}
    THEN ParseBaseline(doc.text, doc.fy)
    ELSE IF doc.kind \in {"_IR_", "_PA_"}
    THEN ParseReprog(doc.text)
    ELSE LET lines_baseline == ParseBaseline(doc.text, doc.fy)
             lines_reprog == ParseReprog(doc.text)
         IN  IF Len(lines_baseline) >= Len(lines_reprog)
             THEN lines_baseline ELSE lines_reprog

\* the `lines` of one iteration of the loop (budget_parser.py:217-229)
DocLines(doc) ==
    IF doc.kind \in {"DD_1414", "Base_for_Reprogramming"}
    THEN ParseBaseline(doc.text, doc.fy)
    ELSE IF doc.kind \in {"_IR_", "_PA_"}
    THEN ParseReprog(doc.text)
    ELSE LET lines_baseline == ParseBaseline(doc.text, doc.fy)
             lines_reprog == ParseReprog(doc.text)
         IN  IF Len(lines_baseline) > Len(lines_reprog)
             THEN lines_baseline ELSE lines_reprog

\* Skipped that tests the 'error' key only
SkippedErrorOnly(doc) == doc.error

\* `if 'error' in result or 'text' not in result: continue`
Skipped(doc) == doc.error \/ ~doc.has_text

\* ProcessResult that passes over a result it has already seen
ProcessResultDedup ==
    /\ proc_pc = "loop"
    /\ res_i <= Len(ocr_results)
    /\ IF Skipped(ocr_results[res_i])
          \/ \E j \in 1..(res_i - 1) : ocr_results[j] = ocr_results[res_i]
       THEN UNCHANGED <<all_lines, proc_pc>>
       ELSE /\ all_lines' = all_lines \o DocLines(ocr_results[res_i])
            /\ UNCHANGED proc_pc
    /\ res_i' = res_i + 1
    /\ UNCHANGED ocr_results
    /\ UNCHANGED notProcVars

\* one iteration of the loop at budget_parser.py:208-231; result['text'] of a
\* result without 'text' raises KeyError, which nothing catches
ProcessResult ==
    /\ proc_pc = "loop"
    /\ res_i <= Len(ocr_results)
    /\ IF Skipped(ocr_results[res_i])
       THEN UNCHANGED <<all_lines, proc_pc>>
       ELSE IF ~ocr_results[res_i].has_text
       THEN proc_pc' = "raised" /\ UNCHANGED all_lines
       ELSE /\ all_lines' = all_lines \o DocLines(ocr_results[res_i])
            /\ UNCHANGED proc_pc
    /\ res_i' = res_i + 1
    /\ UNCHANGED ocr_results
    /\ UNCHANGED notProcVars

RECURSIVE ProcessAll(_)
\* the records process_all_documents collects for the results docs
ProcessAll(docs) ==
    IF docs = <<>> THEN <<>>
    ELSE (IF Skipped(Head(docs)) THEN <<>> ELSE DocLines(Head(docs)))
         \o ProcessAll(Tail(docs))

ProcessReturn ==
    /\ proc_pc = "loop"
    /\ res_i > Len(ocr_results)
    /\ proc_pc' = "done"
    /\ UNCHANGED <<ocr_results, res_i, all_lines>>
    /\ UNCHANGED notProcVars

(***************************************************************************)
(* CSVTransformer.transform / batch_transform on the same results.  The    *)
(* text of a result is the token sequence the section parser sees.         *)
(***************************************************************************)
RECURSIVE CsvRowsFrom(_, _, _)
CsvRowsFrom(text, secs, i) ==
    IF i > Len(secs) - 1 THEN <<>>
    ELSE CsvSectionRows(text, secs[i], secs[i + 1]) \o CsvRowsFrom(text, secs, i + 1)

\* CSVTransformer.parse_ocr_text (csv_transformer.py:162-242)
ParseOcrText(text) == CsvRowsFrom(text, CsvSections(text), 1)

\* CSVTransformer.transform (csv_transformer.py:255-271): the CSV written to
\* the output path; ocr_result.get('text', '') is '' without a 'text' key
Transform(result) ==
    [path |-> result.file,
     rows |-> ParseOcrText(IF result.has_text THEN result.text ELSE <<>>)]

\* one iteration of the loop at csv_transformer.py:290-300
BatchTransformStep ==
    /\ batch_pc = "loop"
    /\ batch_i <= Len(batch_results)
    /\ IF batch_results[batch_i].error
       THEN UNCHANGED <<output_files, csv_written>>
       ELSE /\ csv_written' = Append(csv_written, Transform(batch_results[batch_i]))
            /\ output_files' = Append(output_files, batch_results[batch_i].file)
    /\ batch_i' = batch_i + 1
    /\ UNCHANGED <<batch_results, batch_pc>>
    /\ UNCHANGED notBatchVars

\* `return output_files`
BatchReturn ==
    /\ batch_pc = "loop"
    /\ batch_i > Len(batch_results)
    /\ batch_pc' = "done"
    /\ UNCHANGED <<batch_results, batch_i, output_files, csv_written>>
    /\ UNCHANGED notBatchVars

RECURSIVE BatchWrites(_)
\* the CSVs batch_transform writes for the results docs
BatchWrites(docs) ==
    IF docs = <<>> THEN <<>>
    ELSE (IF Head(docs).error THEN <<>> ELSE << Transform(Head(docs)) >>)
         \o BatchWrites(Tail(docs))

NextProc == ProcessResult \/ ProcessReturn \/ BatchTransformStep \/ BatchReturn

\* the documents the dispatch is run on
Year2023 == <<"2", "0", "2", "3">>

\* tie.pdf: one title line, one line item that is also a data line
DocTie == Doc("other", FALSE, TRUE, <<LineTitleNavy, ItemLine(ItemProcNavy)>>, Unknown)

\* table.pdf: a baseline table
DocTable == Doc("other", FALSE, TRUE, <<LineTitleArmy, LineData, LineDataNeg>>, Unknown)

\* items.pdf: two line items, no table
DocItems ==
    Doc("other", FALSE, TRUE, <<ItemLine(ItemOMArmy), ItemLine(ItemOMArmyLong)>>, Unknown)

\* nothing.pdf: nothing either grammar recognizes
DocNothing == Doc("other", FALSE, TRUE, <<LineShort, LineBlank>>, Unknown)

\* FY_2023_DD_1414.pdf
DocDD1414 ==
    Doc("DD_1414", FALSE, TRUE,
        <<LineTitleArmy, LineBA, LineData, ItemLine(ItemProcNavy)>>, Year2023)

\* 05-12_IR_May.pdf
DocIR ==
    Doc("_IR_", FALSE, TRUE, <<LineTitleArmy, LineData, ItemLine(ItemOMArmy)>>, Unknown)

\* a result of a failed extraction, without text
DocError == Doc("other", TRUE, FALSE, <<>>, Unknown)

\* FY_2023_DD_1414_scan.pdf: a result of a failed extraction that holds text
DocErrorText == Doc("DD_1414", TRUE, TRUE, <<LineTitleArmy, LineData>>, Year2023)

\* a result with neither 'error' nor 'text'
DocNoText == Doc("_IR_", FALSE, FALSE, <<>>, Unknown)

Docs ==
    {DocTie, DocTable, DocItems, DocNothing, DocDD1414, DocIR, DocError,
     DocErrorText, DocNoText}

\* result['file'] of the documents
FileOf(doc) ==
    CASE doc = DocTie -> "tie.pdf" [] doc = DocTable -> "table.pdf"
      [] doc = DocItems -> "items.pdf" [] doc = DocNothing -> "nothing.pdf"
      [] doc = DocDD1414 -> "FY_2023_DD_1414.pdf" [] doc = DocIR -> "05-12_IR_May.pdf"
      [] doc = DocError -> "error.pdf" [] doc = DocErrorText -> "FY_2023_DD_1414_scan.pdf"
      [] doc = DocNoText -> "05-13_IR_June.pdf"

\* the text of the documents as the section parser reads it
OcrTextOf(doc) ==
    CASE doc = DocTie -> <<TokNavy, TokCat, TokAmt>>
      [] doc = DocTable -> <<TokArmy, TokAmt, TokAmt>>
      [] doc = DocItems -> <<TokArmy, TokCat, TokNavy, TokAmt>>
      [] doc = DocNothing -> <<TokGapShort>>
      [] doc = DocDD1414 -> <<TokGapShort, TokArmy, TokAmt>>
      [] doc = DocIR -> <<TokAirForce, TokCat>>
      [] doc = DocErrorText -> <<TokArmy, TokAmt>>
      [] OTHER -> <<>>

\* the result as CSVTransformer.batch_transform reads it
CsvResult(doc) ==
    [file |-> FileOf(doc), error |-> doc.error, has_text |-> doc.has_text,
     text |-> OcrTextOf(doc)]

(***************************************************************************)
(* BudgetParser.create_sankey_data                                         *)
(***************************************************************************)
MaterialityFloor == 50000

IsReprog(row) == row.type = "reprogramming_action"

IsBaseline(row) == row.type = "baseline"

Abs(n) == IF n < 0 THEN 0 - n ELSE n

Flow(source, target, value, fy, type, direction) ==
    [source |-> source, target |-> target, value |-> value, fiscal_year |-> fy,
     type |-> type, direction |-> direction]

\* title[:40]: a title is held as its first 40 characters and the rest
Trunc40(title) == title.head

\* ReprogFlows with the branch-to-activity flow for every row
ReprogFlowsAlwaysActivity(row) ==
    << Flow(row.appropriation_category, row.branch, Abs(row.reprogramming_amount),
            row.fiscal_year_start, "category_to_branch", row.direction),
       Flow(row.branch, Trunc40(row.budget_activity_title),
            Abs(row.reprogramming_amount), row.fiscal_year_start,
            "branch_to_activity", row.direction) >>

\* the flows appended for one reprogramming row (budget_parser.py:258-278)
ReprogFlows(row) ==
    << Flow(row.appropriation_category, row.branch, Abs(row.reprogramming_amount),
            row.fiscal_year_start, "category_to_branch", row.direction) >>
    \o (IF row.budget_activity_title.head # ""
        THEN << Flow(row.branch, Trunc40(row.budget_activity_title),
                     Abs(row.reprogramming_amount), row.fiscal_year_start,
                     "branch_to_activity", row.direction) >>
        ELSE <<>>)

\* 'reprogramming_amount' in df.columns
HasReprogColumn(d) == \E k \in 1..Len(d) : "reprogramming_amount" \in DOMAIN d[k]

\* 'budget_amount' in df.columns
HasBaselineColumn(d) == \E k \in 1..Len(d) : "budget_amount" \in DOMAIN d[k]

\* order of Python strings, on the strings of the model
Rank(x) ==
    CASE x = "0" -> 0 [] x = "1" -> 1 [] x = "2" -> 2 [] x = "3" -> 3 [] x = "4" -> 4
      [] x = "5" -> 5 [] x = "6" -> 6 [] x = "7" -> 7 [] x = "8" -> 8 [] x = "9" -> 9
      [] x = "Air Force" -> 10 [] x = "Army" -> 11 [] x = "Defense" -> 12
      [] x = "Marines" -> 13 [] x = "Military Personnel" -> 14 [] x = "Navy" -> 15
      [] x = "Operation and Maintenance" -> 16 [] x = "PROCUREMENT" -> 17
      [] x = "Procurement" -> 18
      [] x = "Research, Development, Test, and Evaluation" -> 19
      [] x = "Unknown" -> 20

RECURSIVE YearLess(_, _)
\* a < b for two year strings
YearLess(a, b) ==
    IF b = <<>> THEN FALSE
    ELSE IF a = <<>> THEN TRUE
    ELSE IF Rank(a[1]) # Rank(b[1]) THEN Rank(a[1]) < Rank(b[1])
    ELSE YearLess(Tail(a), Tail(b))

\* order of the group keys (category, branch, fiscal_year)
KeyLeq(a, b) ==
    IF a[1] # b[1] THEN Rank(a[1]) < Rank(b[1])
    ELSE IF a[2] # b[2] THEN Rank(a[2]) < Rank(b[2])
    ELSE a[3] = b[3] \/ YearLess(a[3], b[3])

RECURSIVE SortKeys(_)
SortKeys(S) ==
    IF S = {} THEN <<>>
    ELSE LET m == CHOOSE x \in S : \A y \in S : KeyLeq(x, y)
         IN  <<m>> \o SortKeys(S \ {m})

GroupKey(row) == <<row.appropriation_category, row.branch, row.fiscal_year>>

RECURSIVE GroupSum(_, _)
\* sum of budget_amount over the baseline rows of one group
GroupSum(d, key) ==
    IF d = <<>> THEN 0
    ELSE (IF IsBaseline(Head(d)) /\ GroupKey(Head(d)) = key
          THEN Head(d).budget_amount ELSE 0) + GroupSum(Tail(d), key)

\* baseline_df.groupby([...])['budget_amount'].sum().reset_index(): the keys in
\* sorted order
Groups(d) == SortKeys({GroupKey(d[k]) : k \in {j \in 1..Len(d) : IsBaseline(d[j])}})

\* Material with the comparison >= in place of >
MaterialAtLeast(amount) == amount >= MaterialityFloor

\* `if row['budget_amount'] > 50000`
Material(amount) == amount > MaterialityFloor

RECURSIVE GroupFlows(_, _)
GroupFlows(d, keys) ==
    IF keys = <<>> THEN <<>>
    ELSE (IF Material(GroupSum(d, Head(keys)))
          THEN << Flow(Head(keys)[1], Head(keys)[2], GroupSum(d, Head(keys)),
                       Head(keys)[3], "baseline", "baseline") >>
          ELSE <<>>) \o GroupFlows(d, Tail(keys))

\* the flows appended for the baseline rows (budget_parser.py:281-296)
BaselineFlows(d) == IF HasBaselineColumn(d) THEN GroupFlows(d, Groups(d)) ELSE <<>>

FlowKey(flow) == <<flow.source, flow.target, flow.type>>

\* AddFlow that assigns the value in place of adding to it
AddFlowOverwrites(fd, flow) ==
    IF \E k \in 1..Len(fd) : fd[k].key = FlowKey(flow)
    THEN [k \in 1..Len(fd) |->
            IF fd[k].key = FlowKey(flow)
            THEN [fd[k] EXCEPT !.value = flow.value,
                               !.fiscal_years = @ \cup {flow.fiscal_year}]
            ELSE fd[k]]
    ELSE Append(fd, [key |-> FlowKey(flow), value |-> 0 + flow.value,
                     fiscal_years |-> {flow.fiscal_year}])

\* AddFlow that records the fiscal year of a key's first flow only
AddFlowFirstYear(fd, flow) ==
    IF \E k \in 1..Len(fd) : fd[k].key = FlowKey(flow)
    THEN [k \in 1..Len(fd) |->
            IF fd[k].key = FlowKey(flow)
            THEN [fd[k] EXCEPT !.value = @ + flow.value]
            ELSE fd[k]]
    ELSE Append(fd, [key |-> FlowKey(flow), value |-> 0 + flow.value,
                     fiscal_years |-> {flow.fiscal_year}])

\* one iteration of the loop at budget_parser.py:301-305 on the dict, held as
\* its entries in insertion order
AddFlow(fd, flow) ==
    IF \E k \in 1..Len(fd) : fd[k].key = FlowKey(flow)
    THEN [k \in 1..Len(fd) |->
            IF fd[k].key = FlowKey(flow)
            THEN [fd[k] EXCEPT !.value = @ + flow.value,
                               !.fiscal_years = @ \cup {flow.fiscal_year}]
            ELSE fd[k]]
    ELSE Append(fd, [key |-> FlowKey(flow), value |-> 0 + flow.value,
                     fiscal_years |-> {flow.fiscal_year}])

\* all the orders in which list(S) may enumerate the set S
RECURSIVE ListsOf(_)
ListsOf(S) ==
    IF S = {} THEN {<<>>}
    ELSE UNION {{<<x>> \o l : l \in ListsOf(S \ {x})} : x \in S}

RECURSIVE SortYears(_)
\* the years of the set S in the order of Python strings
SortYears(S) ==
    IF S = {} THEN <<>>
    ELSE LET m == CHOOSE x \in S : \A y \in S : x = y \/ YearLess(x, y)
         IN  <<m>> \o SortYears(S \ {m})

\* sorted(l) with no sorting
YearListUnsorted(l) == l

\* sorted(l) of a list of year strings
YearList(l) == SortYears({l[k] : k \in 1..Len(l)})

\* budget_parser.py:308-316; enum[k] is list(data['fiscal_years']) of entry k
AggregatedFlowsOf(fd, enum) ==
    [k \in 1..Len(fd) |->
        [source |-> fd[k].key[1], target |-> fd[k].key[2], value |-> fd[k].value,
         fiscal_years |-> YearList(enum[k]), type |-> fd[k].key[3]]]

RECURSIVE Enumerations(_)
\* the enumerations of the fiscal-year sets of the entries of fd
Enumerations(fd) ==
    IF fd = <<>> THEN {<<>>}
    ELSE {<<l>> \o rest : l \in ListsOf(Head(fd).fiscal_years),
                          rest \in Enumerations(Tail(fd))}

\* the 'flows' list for the dict fd
AggregatedFlows(fd) ==
    AggregatedFlowsOf(fd, [k \in 1..Len(fd) |->
                              CHOOSE l \in ListsOf(fd[k].fiscal_years) : TRUE])

RECURSIVE TotalValue(_)
\* sum(f['value'] for f in aggregated_flows)
TotalValue(edges) ==
    IF edges = <<>> THEN 0 ELSE Head(edges).value + TotalValue(Tail(edges))

\* set(fy for f in aggregated_flows for fy in f['fiscal_years'])
EdgeYears(edges) ==
    UNION {{edges[k].fiscal_years[j] : j \in 1..Len(edges[k].fiscal_years)} :
           k \in 1..Len(edges)}

\* Metadata whose total_flows counts the flows before aggregation
MetadataCountsFlows(edges, l) ==
    [total_flows |-> Len(flows), total_value |-> TotalValue(edges),
     fiscal_years |-> YearList(l)]

\* the 'metadata' of the returned dict (budget_parser.py:320-326); l is
\* list(set(...)) of the years
Metadata(edges, l) ==
    [total_flows |-> Len(edges), total_value |-> TotalValue(edges),
     fiscal_years |-> YearList(l)]

NoMetadata == [total_flows |-> 0, total_value |-> 0, fiscal_years |-> <<>>]

RECURSIVE AllReprogFlows(_, _)
AllReprogFlows(d, k) ==
    IF k > Len(d) THEN <<>>
    ELSE (IF HasReprogColumn(d) /\ IsReprog(d[k]) THEN ReprogFlows(d[k]) ELSE <<>>)
         \o AllReprogFlows(d, k + 1)

RECURSIVE AddFlows(_, _)
AddFlows(fd, fl) == IF fl = <<>> THEN fd ELSE AddFlows(AddFlow(fd, Head(fl)), Tail(fl))

\* the 'flows' list create_sankey_data returns for the rows d
CreateSankey(d) ==
    AggregatedFlows(AddFlows(<<>>, AllReprogFlows(d, 1) \o BaselineFlows(d)))

SankeyReprogRow ==
    /\ sk_pc = "reprog"
    /\ sk_i <= Len(df)
    /\ flows' = IF HasReprogColumn(df) /\ IsReprog(df[sk_i])
                THEN flows \o ReprogFlows(df[sk_i]) ELSE flows
    /\ sk_i' = sk_i + 1
    /\ UNCHANGED <<df, flow_dict, aggregated_flows, metadata, sk_pc>>
    /\ UNCHANGED notSankeyVars

SankeyBaseline ==
    /\ sk_pc = "reprog"
    /\ sk_i > Len(df)
    /\ flows' = flows \o BaselineFlows(df)
    /\ sk_pc' = "aggregate"
    /\ sk_i' = 1
    /\ UNCHANGED <<df, flow_dict, aggregated_flows, metadata>>
    /\ UNCHANGED notSankeyVars

SankeyAggregate ==
    /\ sk_pc = "aggregate"
    /\ sk_i <= Len(flows)
    /\ flow_dict' = AddFlow(flow_dict, flows[sk_i])
    /\ sk_i' = sk_i + 1
    /\ UNCHANGED <<df, flows, aggregated_flows, metadata, sk_pc>>
    /\ UNCHANGED notSankeyVars

SankeyConvert ==
    /\ sk_pc = "aggregate"
    /\ sk_i > Len(flows)
    /\ \E enum \in Enumerations(flow_dict) :
          LET edges == AggregatedFlowsOf(flow_dict, enum) IN
          /\ aggregated_flows' = edges
          /\ \E l \in ListsOf(EdgeYears(edges)) : metadata' = Metadata(edges, l)
    /\ sk_pc' = "done"
    /\ UNCHANGED <<df, flows, flow_dict, sk_i>>
    /\ UNCHANGED notSankeyVars

NextSankey == SankeyReprogRow \/ SankeyBaseline \/ SankeyAggregate \/ SankeyConvert

(***************************************************************************)
(* main() of budget_parser.py: process_all_documents, then                 *)
(* create_sankey_data on the DataFrame it returned.  The run is repeated   *)
(* once on the same list of results; the locals of both functions start    *)
(* afresh, and the BudgetParser holds no attribute either function writes. *)
(***************************************************************************)
\* `sankey_data = budget_parser.create_sankey_data(df)` (budget_parser.py:417)
MainSankey ==
    /\ main_pc = "run"
    /\ proc_pc = "done"
    /\ sk_pc = "idle"
    /\ all_lines # <<>>
    /\ df' = all_lines
    /\ flows' = <<>>
    /\ flow_dict' = <<>>
    /\ sk_i' = 1
    /\ sk_pc' = "reprog"
    /\ UNCHANGED <<aggregated_flows, metadata>>
    /\ UNCHANGED <<scanVars, segVars, reprogVars, yearVars, procVars, amountVars,
                   batchVars, mainVars, hybridVars, pipeVars, scraperVars, extractVars>>

\* `if df.empty: ... return 1` (budget_parser.py:405-407)
MainEmpty ==
    /\ main_pc = "run"
    /\ proc_pc = "done"
    /\ all_lines = <<>>
    /\ main_pc' = "failed"
    /\ UNCHANGED <<run_no, first_lines, first_flows, first_metadata>>
    /\ UNCHANGED <<scanVars, segVars, reprogVars, yearVars, procVars, sankeyVars,
                   amountVars, batchVars, hybridVars, pipeVars, scraperVars, extractVars>>

\* json.dump(sankey_data, f, indent=2) (budget_parser.py:422-423)
MainDump ==
    /\ main_pc = "run"
    /\ sk_pc = "done"
    /\ main_pc' = "done"
    /\ UNCHANGED <<run_no, first_lines, first_flows, first_metadata>>
    /\ UNCHANGED <<scanVars, segVars, reprogVars, yearVars, procVars, sankeyVars,
                   amountVars, batchVars, hybridVars, pipeVars, scraperVars, extractVars>>

\* the second run, on the same ocr_results: what the first run produced is
\* kept aside for comparison
MainRerun ==
    /\ main_pc \in {"done", "failed"}
    /\ run_no = 1
    /\ run_no' = 2
    /\ first_lines' = all_lines
    /\ first_flows' = aggregated_flows
    /\ first_metadata' = metadata
    /\ main_pc' = "run"
    /\ res_i' = 1
    /\ all_lines' = <<>>
    /\ proc_pc' = "loop"
    /\ df' = <<>>
    /\ flows' = <<>>
    /\ flow_dict' = <<>>
    /\ aggregated_flows' = <<>>
    /\ metadata' = NoMetadata
    /\ sk_i' = 1
    /\ sk_pc' = "idle"
    /\ UNCHANGED ocr_results
    /\ UNCHANGED <<scanVars, segVars, reprogVars, yearVars, amountVars, batchVars,
                   hybridVars, pipeVars, scraperVars, extractVars>>

NextMain ==
    \/ ProcessResult \/ ProcessReturn
    \/ MainSankey \/ MainEmpty
    \/ SankeyReprogRow \/ SankeyBaseline \/ SankeyAggregate \/ SankeyConvert
    \/ MainDump \/ MainRerun

\* the rows the aggregation is run on: records of the two parsers
Pointers(cat, br) ==
    [current_branch |-> br, current_category |-> cat,
     current_budget_activity |-> None, current_ba_number |-> None, lines |-> <<>>]

\* "Basic Pay 25,000"
LineData25000 ==
    Ln(16, <<>>, <<>>, FALSE, << <<"2", "5", ",", "0", "0", "0">> >>, 9, FALSE, <<>>)

\* "Basic Pay 25,001"
LineData25001 ==
    Ln(16, <<>>, <<>>, FALSE, << <<"2", "5", ",", "0", "0", "1">> >>, 9, FALSE, <<>>)

\* "Basic Pay 50,000"
LineData50000 ==
    Ln(16, <<>>, <<>>, FALSE, << <<"5", "0", ",", "0", "0", "0">> >>, 9, FALSE, <<>>)

DfRows ==
    {ReprogRecord(ItemOMArmy), ReprogRecord(ItemProcNavy), ReprogRecord(ItemOMArmyLong),
     BaselineRecord(Pointers("Military Personnel", "Army"), LineData25000, 1, Year2023),
     BaselineRecord(Pointers("Military Personnel", "Army"), LineData25001, 2, Year2023),
     BaselineRecord(Pointers("Military Personnel", "Army"), LineData50000, 3, Unknown),
     BaselineRecord(Pointers("Operation and Maintenance", "Army"), LineData50000, 1, Year2023)}

(***************************************************************************)
(* DD1414EnhancedScraper.parse_amount / DD1414FastScraper.parse_amount and *)
(* the amount loop of extract_enhanced_data / extract_key_data.            *)
(*                                                                         *)
(* An amount string is a sequence of tokens: one-character strings and the *)
(* scale words.  A float is held as a decimal number                       *)
(* (-1)^neg * m * 10^e with m not a multiple of ten, and Python's None as  *)
(* the value with none = TRUE.                                             *)
(***************************************************************************)
MaxChars == 3

MaxMatches == 2

Digits == {"0", "1", "2", "3", "4", "5", "6", "7", "8", "9"}

NoAmount == [none |-> TRUE, neg |-> FALSE, m |-> 0, e |-> 0]

RECURSIVE Norm(_, _, _)
\* the float with the value (-1)^neg * m * 10^e
Norm(neg, m, e) ==
    IF m = 0 THEN [none |-> FALSE, neg |-> FALSE, m |-> 0, e |-> 0]
    ELSE IF m % 10 = 0 THEN Norm(neg, m \div 10, e + 1)
    ELSE [none |-> FALSE, neg |-> neg, m |-> m, e |-> e]

\* x * 10^k
Scale(x, k) == Norm(x.neg, x.m, x.e + k)

RECURSIVE Pow10(_)
Pow10(k) == IF k = 0 THEN 1 ELSE 10 * Pow10(k - 1)

\* a < b for two floats
FloatLess(a, b) ==
    LET lo == Min2(a.e, b.e)
        av == (IF a.neg THEN 0 - a.m ELSE a.m) * Pow10(a.e - lo)
        bv == (IF b.neg THEN 0 - b.m ELSE b.m) * Pow10(b.e - lo)
    IN  av < bv

\* `amount and amount > 0`
PositiveAmount(x) == ~x.none /\ x.m # 0 /\ ~x.neg

\* the lower-case form of a token
Lower(c) ==
    CASE c = "Million" -> "million" [] c = "Thousand" -> "thousand" [] OTHER -> c

\* "word in amount_str.lower()"
HasWord(s, word) == \E k \in 1..Len(s) : Lower(s[k]) = word

\* the longest prefix of s made of digits
RECURSIVE DigitRun(_)
DigitRun(s) ==
    IF s # <<>> /\ Head(s) \in Digits THEN <<Head(s)>> \o DigitRun(Tail(s)) ELSE <<>>

\* float() of the digits ip, a point when dot, and the digits fp
FloatOfDigits(neg, ip, fp) == Norm(neg, StrToInt(ip \o fp), 0 - Len(fp))

\* re.search(r'(\d+\.?\d*)', cleaned): <<>> or <<int digits, fraction digits>>
RECURSIVE NumberMatch(_)
NumberMatch(s) ==
    IF s = <<>> THEN <<>>
    ELSE IF Head(s) \in Digits THEN
        LET ip == DigitRun(s)
            rest == SubSeq(s, Len(ip) + 1, Len(s))
        IN  IF rest # <<>> /\ Head(rest) = "."
            THEN <<ip, DigitRun(Tail(rest))>>
            ELSE <<ip, <<>> >>
    ELSE NumberMatch(Tail(s))

\* the scale word the if/elif chain selects (dd1414_enhanced_scraper.py:294-304)
ScaleWord(s) ==
    IF HasWord(s, "million") THEN "million"
    ELSE IF HasWord(s, "billion") THEN "billion"
    ELSE IF HasWord(s, "thousand") THEN "thousand"
    ELSE ""

\* the exponent of the multiplier of a scale word
Multiplier(word) ==
    CASE word = "million" -> 6 [] word = "billion" -> 9 [] word = "thousand" -> 3
      [] word = "" -> 0

\* ParseAmountEnhanced that ignores the scale word
ParseAmountNoScale(s) ==
    LET cleaned == SelectSeq(s, LAMBDA c : c \notin {",", "$", " "})
        word == ScaleWord(s)
        stripped == IF word = "" THEN cleaned ELSE StrRemove(cleaned, word)
        nm == NumberMatch(stripped)
    IN  IF nm = <<>> THEN NoAmount
        ELSE Scale(FloatOfDigits(FALSE, nm[1], nm[2]), 0)

\* ParseAmountEnhanced that returns 0.0 when no number is found
ParseAmountZero(s) ==
    LET cleaned == SelectSeq(s, LAMBDA c : c \notin {",", "$", " "})
        word == ScaleWord(s)
        stripped == IF word = "" THEN cleaned ELSE StrRemove(cleaned, word)
        nm == NumberMatch(stripped)
    IN  IF nm = <<>> THEN Norm(FALSE, 0, 0)
        ELSE Scale(FloatOfDigits(FALSE, nm[1], nm[2]), Multiplier(word))

\* DD1414EnhancedScraper.parse_amount (dd1414_enhanced_scraper.py:287-313):
\* cleaned.replace(word, '') removes the lower-case word only
ParseAmountEnhanced(s) ==
    LET cleaned == SelectSeq(s, LAMBDA c : c \notin {",", "$", " "})
        word == ScaleWord(s)
        stripped == IF word = "" THEN cleaned ELSE StrRemove(cleaned, word)
        nm == NumberMatch(stripped)
    IN  IF nm = <<>> THEN NoAmount
        ELSE Scale(FloatOfDigits(FALSE, nm[1], nm[2]), Multiplier(word))

\* str.strip(): without the leading and trailing blanks
RECURSIVE Strip(_)
Strip(s) ==
    IF s = <<>> THEN s
    ELSE IF Head(s) = " " THEN Strip(Tail(s))
    ELSE IF s[Len(s)] = " " THEN Strip(SubSeq(s, 1, Len(s) - 1))
    ELSE s

ValueError == [raised |-> TRUE, value |-> NoAmount]

\* float(s) on the strings of the model: blanks around an optional sign and
\* digits with at most one point, at least one digit; ValueError otherwise
FloatOf(s) ==
    LET t == Strip(s)
        neg == t # <<>> /\ Head(t) = "-"
        u == IF neg THEN Tail(t) ELSE t
        ip == DigitRun(u)
        r1 == SubSeq(u, Len(ip) + 1, Len(u))
        dot == r1 # <<>> /\ Head(r1) = "."
        fp == IF dot THEN DigitRun(Tail(r1)) ELSE <<>>
        used == Len(ip) + (IF dot THEN 1 + Len(fp) ELSE 0)
    IN  IF used = Len(u) /\ Len(ip) + Len(fp) > 0
        THEN [raised |-> FALSE, value |-> FloatOfDigits(neg, ip, fp)]
        ELSE ValueError

\* DD1414FastScraper.parse_amount (dd1414_fast_scraper.py:127-134)
ParseAmountFast(s) ==
    LET cleaned == SelectSeq(s, LAMBDA c : c \notin {",", "$"})
        f == FloatOf(cleaned)
    IN  IF f.raised THEN NoAmount ELSE f.value

ParseAmount(v, s) == IF v = "enhanced" THEN ParseAmountEnhanced(s) ELSE ParseAmountFast(s)

\* amounts.sort(reverse=True)
RECURSIVE SortDesc(_)
SortDesc(s) ==
    IF s = <<>> THEN <<>>
    ELSE LET k == CHOOSE i \in 1..Len(s) : \A j \in 1..Len(s) : ~FloatLess(s[i], s[j])
         IN  <<s[k]>> \o SortDesc([j \in 1..(Len(s) - 1) |-> IF j < k THEN s[j] ELSE s[j + 1]])

\* `x[0] if x else None`, `x[1] if len(x) > 1 else None`
ItemOrNone(s, k, none) == IF Len(s) >= k THEN s[k] ELSE none

NoDate == <<>>

\* the DD1414Record as constructed (dd1414_enhanced_scraper.py:323-329)
NewRecord ==
    [total_amount |-> NoAmount, amount_reprogrammed |-> NoAmount,
     submission_date |-> NoDate, effective_date |-> NoDate]

\* one iteration of the loop over the matches (dd1414_enhanced_scraper.py:335-338)
ExtractAmountStep ==
    /\ amount_pc = "amounts"
    /\ amount_i <= Len(amount_matches)
    /\ LET amount == ParseAmount(amount_variant, amount_matches[amount_i]) IN
        /\ amount_parsed' = Append(amount_parsed, amount)
        /\ amounts_list' = IF PositiveAmount(amount) THEN Append(amounts_list, amount)
                                                  ELSE amounts_list
    /\ amount_i' = amount_i + 1
    /\ UNCHANGED <<amount_variant, amount_matches, amount_dates, record, amount_pc>>
    /\ UNCHANGED notAmountVars

\* the rest of extract_enhanced_data (dd1414_enhanced_scraper.py:340-392) and
\* of extract_key_data (dd1414_fast_scraper.py:159-188)
ExtractAssign ==
    /\ amount_pc = "amounts"
    /\ amount_i > Len(amount_matches)
    /\ LET sorted == SortDesc(amounts_list) IN
        /\ amounts_list' = sorted
        /\ record' = [record EXCEPT
              !.total_amount = ItemOrNone(sorted, 1, NoAmount),
              !.amount_reprogrammed = ItemOrNone(sorted, 2, NoAmount),
              !.submission_date = ItemOrNone(amount_dates, 1, NoDate),
              !.effective_date = ItemOrNone(amount_dates, 2, NoDate)]
    /\ amount_pc' = "done"
    /\ UNCHANGED <<amount_variant, amount_matches, amount_dates, amount_i, amount_parsed>>
    /\ UNCHANGED notAmountVars

NextAmount == ExtractAmountStep \/ ExtractAssign

\* the tokens of the amount strings
AmountTokens ==
    {"$", ",", " ", ".", "-", "0", "1", "5", "x",
     "million", "Million", "billion", "thousand"}

AmountInputs == SeqsUpTo(AmountTokens, MaxChars)

\* what the group ([\d,]+\.?\d*) of the amount patterns captures
\* "1,500", "2.5", ",", ",.", "0", "300"
Captures ==
    { <<"1", ",", "5", "0", "0">>, <<"2", ".", "5">>, <<",">>, <<",", ".">>,
      <<"0">>, <<"3", "0", "0">> }

\* what the date patterns find: nothing, one date, two dates
DateLists == { <<>>, << <<"01/02/2023">> >>, << <<"01/02/2023">>, <<"2023-01-02">> >> }

(***************************************************************************)
(* DD1414EnhancedScraper.extract_text_hybrid,                              *)
(* extract_text_with_enhanced_ocr and process_dd1414_pdf.                  *)
(*                                                                         *)
(* A text is a sequence of characters, of which "w" stands for any         *)
(* character that is not white space.  A confidence is a float, held as    *)
(* the fraction num/den in lowest terms.                                   *)
(***************************************************************************)
MaxPages == 2

\* `if int(conf) > 30`
ConfidenceFloor == 30

\* `confidence_scores.append(50)`
DefaultConfidence == 50

\* `return text, "text", 100.0`
TextConfidence == 100

RECURSIVE Gcd(_, _)
Gcd(a, b) == IF b = 0 THEN a ELSE Gcd(b, a % b)

\* the float num/den
Frac(num, den) ==
    LET g == Gcd(num, den) IN [num |-> num \div g, den |-> den \div g]

WhiteSpace == {" ", "\n"}

RECURSIVE StripText(_)
\* str.strip()
StripText(s) ==
    IF s = <<>> THEN s
    ELSE IF Head(s) \in WhiteSpace THEN StripText(Tail(s))
    ELSE IF s[Len(s)] \in WhiteSpace THEN StripText(SubSeq(s, 1, Len(s) - 1))
    ELSE s

RECURSIVE Concat(_)
\* the texts of the sequence ss, one after the other
Concat(ss) == IF ss = <<>> THEN <<>> ELSE Head(ss) \o Concat(Tail(ss))

RECURSIVE Sum(_)
Sum(scores) == IF scores = <<>> THEN 0 ELSE Head(scores) + Sum(Tail(scores))

\* AvgConfidence without the division
AvgConfidenceSum(scores) == Frac(Sum(scores), 1)

\* `sum(confidence_scores) / len(confidence_scores) if confidence_scores else 0`
AvgConfidence(scores) ==
    IF scores # <<>> THEN Frac(Sum(scores), Len(scores)) ELSE Frac(0, 1)

\* one entry of the dict of image_to_data: data['text'][i] and data['conf'][i]
Word(text, conf) == [text |-> text, conf |-> conf]

\* what the engine gives for one page: the words of image_to_data, or, when
\* image_to_data or int(conf) raises, the string of image_to_string, or an
\* exception from that too
Page(data_ok, words, string_ok, string) ==
    [data_ok |-> data_ok, words |-> words, string_ok |-> string_ok, string |-> string]

RECURSIVE OcrPageText(_)
\* page_text after the loop at dd1414_enhanced_scraper.py:218-221
OcrPageText(words) ==
    IF words = <<>> THEN <<>>
    ELSE (IF Head(words).conf > ConfidenceFloor THEN Head(words).text \o <<" ">> ELSE <<>>)
         \o OcrPageText(Tail(words))

RECURSIVE OcrPageConfidence(_)
\* page_confidence after the loop at dd1414_enhanced_scraper.py:218-221
OcrPageConfidence(words) ==
    IF words = <<>> THEN <<>>
    ELSE (IF Head(words).conf > ConfidenceFloor THEN <<Head(words).conf>> ELSE <<>>)
         \o OcrPageConfidence(Tail(words))

HybridResult(text, method, confidence) ==
    [text |-> text, method |-> method, confidence |-> confidence]

NoHybridResult == HybridResult(<<>>, "", Frac(0, 1))

\* None in place of a DD1414Record
NoDD1414Record ==
    [none |-> TRUE, extraction_method |-> "", confidence_score |-> Frac(0, 1)]

\* the pages the engine is run on
PageOutcomes ==
    { Page(TRUE, <<>>, TRUE, <<>>),
      Page(TRUE, << Word(<<"w">>, 96) >>, TRUE, <<>>),
      Page(TRUE, << Word(<<"w">>, 30) >>, TRUE, <<>>),
      Page(TRUE, << Word(<<"w">>, 31), Word(<<"w">>, 100) >>, TRUE, <<>>),
      Page(TRUE, << Word(<<>>, -1), Word(<<"w">>, 100) >>, TRUE, <<>>),
      Page(TRUE, << Word(<<" ">>, 95) >>, TRUE, <<>>),
      Page(FALSE, <<>>, TRUE, <<"w", "\n">>),
      Page(FALSE, <<>>, TRUE, <<>>),
      Page(FALSE, <<>>, FALSE, <<>>) }

\* what page.get_text() returns
PageTexts == { <<>>, <<" ", "\n">>, <<"w", "\n">> }

\* `file_size = pdf_path.stat().st_size` (dd1414_enhanced_scraper.py:400)
ProcessStat ==
    /\ hyb_pc = "stat"
    /\ \/ hyb_pc' = "direct" /\ UNCHANGED <<raised_in, dd_record>>
       \/ /\ raised_in' = "stat"
          /\ dd_record' = NoDD1414Record
          /\ hyb_pc' = "done"
    /\ UNCHANGED <<page_count, direct_pages, ocr_pages, page_num, full_text,
                   confidence_scores, hybrid_result>>
    /\ UNCHANGED notHybridVars

\* extract_text_hybrid up to the call of the OCR
\* (dd1414_enhanced_scraper.py:246-261, 265-267)
HybridDirect ==
    /\ hyb_pc = "direct"
    /\ \/ /\ raised_in' = "direct"
          /\ hybrid_result' = HybridResult(<<>>, "failed", Frac(0, 1))
          /\ hyb_pc' = "process"
          /\ UNCHANGED direct_pages
       \/ \E got \in [1..page_count -> PageTexts] :
             LET text == Concat(got) IN
             /\ direct_pages' = got
             /\ IF StripText(text) # <<>>
                THEN /\ hybrid_result' = HybridResult(text, "text", Frac(TextConfidence, 1))
                     /\ hyb_pc' = "process"
                ELSE /\ hyb_pc' = "ocr"
                     /\ UNCHANGED hybrid_result
             /\ UNCHANGED raised_in
    /\ UNCHANGED <<page_count, ocr_pages, page_num, full_text, confidence_scores,
                   dd_record>>
    /\ UNCHANGED notHybridVars

\* fitz.open raises in extract_text_with_enhanced_ocr
\* (dd1414_enhanced_scraper.py:193, 240-242, 262-263)
OcrOpenFails ==
    /\ hyb_pc = "ocr"
    /\ page_num = 0
    /\ raised_in = "none"
    /\ raised_in' = "ocr"
    /\ hybrid_result' = HybridResult(<<>>, "ocr", Frac(0, 1))
    /\ hyb_pc' = "process"
    /\ UNCHANGED <<page_count, direct_pages, ocr_pages, page_num, full_text,
                   confidence_scores, dd_record>>
    /\ UNCHANGED notHybridVars

\* one iteration of the loop at dd1414_enhanced_scraper.py:197-231
OcrPage ==
    /\ hyb_pc = "ocr"
    /\ page_num < page_count
    /\ \E page \in PageOutcomes :
          /\ ocr_pages' = Append(ocr_pages, page)
          /\ IF page.data_ok
             THEN /\ full_text' = full_text \o OcrPageText(page.words) \o <<"\n">>
                  /\ confidence_scores'
                        = confidence_scores \o OcrPageConfidence(page.words)
                  /\ UNCHANGED <<raised_in, hybrid_result, hyb_pc>>
             ELSE IF page.string_ok
             THEN /\ full_text' = full_text \o page.string \o <<"\n">>
                  /\ confidence_scores' = Append(confidence_scores, DefaultConfidence)
                  /\ UNCHANGED <<raised_in, hybrid_result, hyb_pc>>
             ELSE /\ raised_in' = "ocr"
                  /\ hybrid_result' = HybridResult(<<>>, "ocr", Frac(0, 1))
                  /\ hyb_pc' = "process"
                  /\ UNCHANGED <<full_text, confidence_scores>>
    /\ page_num' = page_num + 1
    /\ UNCHANGED <<page_count, direct_pages, dd_record>>
    /\ UNCHANGED notHybridVars

\* the end of extract_text_with_enhanced_ocr and of extract_text_hybrid
\* (dd1414_enhanced_scraper.py:233-238, 262-263)
OcrReturn ==
    /\ hyb_pc = "ocr"
    /\ page_num = page_count
    /\ hybrid_result'
          = HybridResult(StripText(full_text), "ocr", AvgConfidence(confidence_scores))
    /\ hyb_pc' = "process"
    /\ UNCHANGED <<page_count, direct_pages, ocr_pages, page_num, full_text,
                   confidence_scores, raised_in, dd_record>>
    /\ UNCHANGED notHybridVars

\* the rest of process_dd1414_pdf (dd1414_enhanced_scraper.py:403-417) with
\* the record of extract_enhanced_data (dd1414_enhanced_scraper.py:323-329)
ProcessRecord ==
    /\ hyb_pc = "process"
    /\ dd_record' = IF StripText(hybrid_result.text) = <<>>
                    THEN NoDD1414Record
                    ELSE [none |-> FALSE,
                          extraction_method |-> hybrid_result.method,
                          confidence_score |-> hybrid_result.confidence]
    /\ hyb_pc' = "done"
    /\ UNCHANGED <<page_count, direct_pages, ocr_pages, page_num, full_text,
                   confidence_scores, raised_in, hybrid_result>>
    /\ UNCHANGED notHybridVars

NextHybrid ==
    ProcessStat \/ HybridDirect \/ OcrOpenFails \/ OcrPage \/ OcrReturn \/ ProcessRecord

(***************************************************************************)
(* main.main, steps 3 to 5: OCRProcessor.batch_process, then               *)
(* CSVTransformer.batch_transform, then the update of                      *)
(* metadata['processed_files'] and its save.                               *)
(***************************************************************************)
\* pdf.name of the PDFs of the directory: a stem and the suffix
PdfStems == {"a", "b", "c"}

PdfNames == {<<s, ".pdf">> : s \in PdfStems}

\* pdf_dir.glob('*.pdf'), filtered to the unprocessed ones: names of one
\* directory differ, and an empty list returns before step 3
PdfLists ==
    {l \in SeqsUpTo(PdfNames, MaxPdfs) :
        /\ l # <<>>
        /\ \A i, j \in DOMAIN l : i # j => l[i] # l[j]}

\* Path(source_file).stem + '_extracted.csv' (csv_transformer.py:296)
OutputName(file) == <<file[1], "_extracted.csv">>

\* a key metadata['processed_files'] does not hold
NoEntry == [pdf_path |-> <<>>, csv_path |-> <<>>, csv_generated |-> FALSE,
            validated |-> FALSE]

NoProcessedFiles == [n \in PdfNames |-> NoEntry]

\* the entry main writes for the pair (pdf_file, csv_file)
ProcessedEntry(pdf_file, csv_file, validated) ==
    [pdf_path |-> pdf_file, csv_path |-> csv_file, csv_generated |-> TRUE,
     validated |-> validated]

RECURSIVE OutputFiles(_)
\* the list batch_transform returns (csv_transformer.py:288-302): a result
\* with an 'error' key is skipped
OutputFiles(results) ==
    IF results = <<>> THEN <<>>
    ELSE (IF Head(results).error THEN <<>> ELSE << OutputName(Head(results).file) >>)
         \o OutputFiles(Tail(results))

RECURSIVE UpdateProcessed(_, _, _, _)
\* `for pdf_file, csv_file in zip(pdf_files, csv_files):
\*      metadata['processed_files'][pdf_file.name] = {...}`
UpdateProcessed(pf, names, paths, validated) ==
    IF names = <<>> \/ paths = <<>> THEN pf
    ELSE UpdateProcessed(
             [pf EXCEPT ![Head(names)] = ProcessedEntry(Head(names), Head(paths), validated)],
             Tail(names), Tail(paths), validated)

\* processor.batch_process(...) (main.py:115, ocr_processor.py:266-284): one
\* result per PDF in order; a PDF whose OCR raised carries 'error'
PipeBatchProcess ==
    /\ pipe_pc = "ocr"
    /\ \E failed \in [DOMAIN pdf_files -> BOOLEAN] :
          pipeline_results' =
              [k \in DOMAIN pdf_files |-> [file |-> pdf_files[k], error |-> failed[k]]]
    /\ pipe_pc' = "transform"
    /\ UNCHANGED <<pdf_files, csv_files, processed_files, saved_processed_files>>
    /\ UNCHANGED notPipeVars

\* transformer.batch_transform(ocr_results, ...) (main.py:120)
PipeBatchTransform ==
    /\ pipe_pc = "transform"
    /\ csv_files' = OutputFiles(pipeline_results)
    /\ pipe_pc' = "update"
    /\ UNCHANGED <<pdf_files, pipeline_results, processed_files, saved_processed_files>>
    /\ UNCHANGED notPipeVars

\* the validation ran (main.py:127-147): batch_validate returns one report
\* per CSV file, so the zip of three is as long as csv_files
PipeValidated ==
    /\ pipe_pc = "update"
    /\ processed_files' = UpdateProcessed(processed_files, pdf_files, csv_files, TRUE)
    /\ pipe_pc' = "save"
    /\ UNCHANGED <<pdf_files, pipeline_results, csv_files, saved_processed_files>>
    /\ UNCHANGED notPipeVars

\* the validation raised (main.py:149-160)
PipeValidationFailed ==
    /\ pipe_pc = "update"
    /\ processed_files' = UpdateProcessed(processed_files, pdf_files, csv_files, FALSE)
    /\ pipe_pc' = "save"
    /\ UNCHANGED <<pdf_files, pipeline_results, csv_files, saved_processed_files>>
    /\ UNCHANGED notPipeVars

\* --no-validate or no API key (main.py:161-171)
PipeSkipValidation ==
    /\ pipe_pc = "update"
    /\ processed_files' = UpdateProcessed(processed_files, pdf_files, csv_files, FALSE)
    /\ pipe_pc' = "save"
    /\ UNCHANGED <<pdf_files, pipeline_results, csv_files, saved_processed_files>>
    /\ UNCHANGED notPipeVars

\* json.dump(metadata, f, indent=2) (main.py:174-175)
PipeSave ==
    /\ pipe_pc = "save"
    /\ saved_processed_files' = processed_files
    /\ pipe_pc' = "done"
    /\ UNCHANGED <<pdf_files, pipeline_results, csv_files, processed_files>>
    /\ UNCHANGED notPipeVars

NextPipe ==
    \/ PipeBatchProcess \/ PipeBatchTransform
    \/ PipeValidated \/ PipeValidationFailed \/ PipeSkipValidation
    \/ PipeSave

(***************************************************************************)
(* ComptrollerScraper: _load_metadata, run, download_pdf, _save_metadata.  *)
(* A link is (url, filename); filename is the basename of the URL's path,  *)
(* so two URLs of different directories can carry one filename.            *)
(***************************************************************************)
PdfLinks ==
    {[url |-> "fy2024/a.pdf", filename |-> "a.pdf"],
     [url |-> "fy2025/a.pdf", filename |-> "a.pdf"],
     [url |-> "fy2025/b.pdf", filename |-> "b.pdf"]}

Filenames == {l.filename : l \in PdfLinks}

\* `unique_pdfs = {pdf['url']: pdf for pdf in all_pdfs}; pdfs = list(...)`
\* (download_pdfs.py:178-179): one link per URL
DiscoveredLists ==
    {l \in SeqsUpTo(PdfLinks, MaxLinks) : \A i, j \in DOMAIN l : i # j => l[i] # l[j]}

\* _get_file_hash of the file downloaded from url: a hexdigest, never empty
FileHash(url) == <<"md5", url>>

\* a key metadata['downloaded_files'] does not hold
NoDownload == [url |-> "", hash |-> <<>>]

\* the metadata of a first run (download_pdfs.py:51-56)
FreshMetadata ==
    [downloaded_files |-> [f \in Filenames |-> NoDownload],
     total_files |-> 0,
     failed_downloads |-> <<>>]

NoMetadataFile == [exists |-> FALSE, content |-> FreshMetadata]

\* `filename in self.metadata['downloaded_files']`
Recorded(md, filename) == md.downloaded_files[filename] # NoDownload

\* len(self.metadata['downloaded_files'])
RecordedCount(md) == Cardinality({f \in Filenames : Recorded(md, f)})

\* the skip test of download_pdf (download_pdfs.py:122-126)
AlreadyDownloadedNever(md, files, filename) == FALSE

AlreadyDownloaded(md, files, filename) ==
    /\ Recorded(md, filename)
    /\ filename \in files
    /\ md.downloaded_files[filename].hash # <<>>

\* `[pdf for pdf in pdfs if pdf['filename'] not in downloaded_files]`
NewPdfs(md, links) == SelectSeq(links, LAMBDA l : ~Recorded(md, l.filename))

\* `new_pdfs[:max_downloads]` under `if max_downloads:`
Limit(links, max_downloads) ==
    IF max_downloads = 0 THEN links
    ELSE SubSeq(links, 1, Min2(max_downloads, Len(links)))

\* ComptrollerScraper(...) and run up to the download loop
\* (download_pdfs.py:40, 46-56, 171-196)
ScraperRun ==
    /\ scraper_pc \in {"start", "done"}
    /\ runs_done < MaxRuns
    /\ \E found \in DiscoveredLists, max_downloads \in 0..MaxLinks :
          LET md == IF metadata_file.exists THEN metadata_file.content
                    ELSE FreshMetadata
          IN  /\ scraper_metadata' = md
              /\ pdfs' = found
              /\ new_pdfs' = Limit(NewPdfs(md, found), max_downloads)
    /\ download_i' = 1
    /\ downloaded_count' = 0
    /\ scraper_pc' = "check"
    /\ UNCHANGED <<metadata_file, disk, runs_done>>
    /\ UNCHANGED notScraperVars

\* download_pdf up to the request (download_pdfs.py:117-126): a file that
\* is recorded with a hash and exists is skipped
DownloadCheck ==
    /\ scraper_pc = "check"
    /\ download_i <= Len(new_pdfs)
    /\ IF AlreadyDownloaded(scraper_metadata, disk, new_pdfs[download_i].filename)
       THEN download_i' = download_i + 1 /\ scraper_pc' = "check"
       ELSE download_i' = download_i /\ scraper_pc' = "get"
    /\ UNCHANGED <<pdfs, new_pdfs, scraper_metadata, metadata_file, disk, runs_done,
                   downloaded_count>>
    /\ UNCHANGED notScraperVars

\* the request and the write succeed (download_pdfs.py:129-155)
DownloadOk ==
    /\ scraper_pc = "get"
    /\ LET pdf_info == new_pdfs[download_i]
           recorded == [scraper_metadata.downloaded_files EXCEPT
                            ![pdf_info.filename] =
                                [url |-> pdf_info.url, hash |-> FileHash(pdf_info.url)]]
       IN  /\ disk' = disk \cup {pdf_info.filename}
           /\ scraper_metadata' =
                 [scraper_metadata EXCEPT
                     !.downloaded_files = recorded,
                     !.total_files =
                         Cardinality({f \in Filenames : recorded[f] # NoDownload})]
    /\ downloaded_count' = downloaded_count + 1
    /\ download_i' = download_i + 1
    /\ scraper_pc' = "check"
    /\ UNCHANGED <<pdfs, new_pdfs, metadata_file, runs_done>>
    /\ UNCHANGED notScraperVars

\* the request or the write raises (download_pdfs.py:157-165); the file may
\* have been opened for writing before
DownloadFail ==
    /\ scraper_pc = "get"
    /\ LET pdf_info == new_pdfs[download_i]
       IN  /\ \E opened \in BOOLEAN :
                 disk' = IF opened THEN disk \cup {pdf_info.filename} ELSE disk
           /\ scraper_metadata' =
                 [scraper_metadata EXCEPT
                     !.failed_downloads = Append(@, pdf_info.url)]
    /\ download_i' = download_i + 1
    /\ scraper_pc' = "check"
    /\ UNCHANGED <<pdfs, new_pdfs, metadata_file, runs_done, downloaded_count>>
    /\ UNCHANGED notScraperVars

\* self._save_metadata() and the return of run (download_pdfs.py:202-219)
SaveMetadata ==
    /\ scraper_pc = "check"
    /\ download_i > Len(new_pdfs)
    /\ metadata_file' = [exists |-> TRUE, content |-> scraper_metadata]
    /\ runs_done' = runs_done + 1
    /\ scraper_pc' = "done"
    /\ UNCHANGED <<pdfs, new_pdfs, download_i, scraper_metadata, disk, downloaded_count>>
    /\ UNCHANGED notScraperVars

\* somebody removes a file of the output directory
RemoveFile ==
    /\ scraper_pc # "idle"
    /\ \E f \in disk : disk' = disk \ {f}
    /\ UNCHANGED <<pdfs, new_pdfs, download_i, scraper_metadata, metadata_file, runs_done,
                   downloaded_count, scraper_pc>>
    /\ UNCHANGED notScraperVars

NextScraper ==
    ScraperRun \/ DownloadCheck \/ DownloadOk \/ DownloadFail \/ SaveMetadata \/ RemoveFile

(***************************************************************************)
(* OCRProcessor.extract_from_pdf (ocr_processor.py:182-264).  A text is    *)
(* the sequence of its page texts; a page text is who read it and how many *)
(* characters it holds, none of them white space at either end.            *)
(***************************************************************************)
MeaningfulChars == 100

\* a page: the characters page.extract_text() returns and the characters
\* the OCR engine reads from its image
PdfPages == {[direct |-> d, ocr |-> o] : d \in {0, 60, 101}, o \in {0, 60}}

PageText(src, n) == [src |-> src, n |-> n]

RECURSIVE DirectText(_)
\* `if page_text: text += page_text + '\n'` over reader.pages
DirectText(pages) ==
    IF pages = <<>> THEN <<>>
    ELSE (IF Head(pages).direct > 0 THEN << PageText("direct", Head(pages).direct) >>
          ELSE <<>>)
         \o DirectText(Tail(pages))

RECURSIVE CharsOf(_)
\* len(text.strip()) of a direct text: every page text is followed by '\n',
\* and strip() removes the last one
CharsOf(text) ==
    IF text = <<>> THEN 0
    ELSE IF Len(text) = 1 THEN text[1].n
    ELSE text[1].n + 1 + CharsOf(Tail(text))

\* result before anything is read (ocr_processor.py:200-207)
NewExtractResult(ocr) ==
    [text |-> <<>>, pages_processed |-> 0,
     method |-> IF ocr THEN "ocr" ELSE "text_extraction",
     error |-> FALSE]

NoExtractResult == [text |-> <<>>, pages_processed |-> 0, method |-> "", error |-> FALSE]

\* `if not pdf_path.exists(): raise FileNotFoundError`, then the dict result
ExtractStart ==
    /\ extract_pc = "start"
    /\ IF ~pdf_exists
       THEN extract_pc' = "raised" /\ UNCHANGED extract_result
       ELSE /\ extract_result' = NewExtractResult(use_ocr)
            /\ extract_pc' = IF use_ocr THEN "convert" ELSE "direct"
    /\ UNCHANGED <<use_ocr, pdf_exists, pdf_pages, image_i, all_text>>
    /\ UNCHANGED notExtractVars

\* the text extraction of ocr_processor.py:210-229: it returns the text when
\* it holds more than 100 characters, and goes on to OCR when it holds fewer
\* or when PdfReader raised
ExtractDirect ==
    /\ extract_pc = "direct"
    /\ \E raises \in BOOLEAN :
          LET text == DirectText(pdf_pages)
          IN  IF ~raises /\ CharsOf(text) > MeaningfulChars
              THEN /\ extract_result' =
                         [extract_result EXCEPT !.text = text,
                                                !.pages_processed = Len(pdf_pages)]
                   /\ extract_pc' = "done"
              ELSE /\ extract_pc' = "convert"
                   /\ UNCHANGED extract_result
    /\ UNCHANGED <<use_ocr, pdf_exists, pdf_pages, image_i, all_text>>
    /\ UNCHANGED notExtractVars

\* images = convert_from_path(...) (ocr_processor.py:235), which may raise
ExtractConvert ==
    /\ extract_pc = "convert"
    /\ \E raises \in BOOLEAN :
          IF raises
          THEN /\ extract_result' = [extract_result EXCEPT !.error = TRUE]
               /\ extract_pc' = "done"
          ELSE /\ extract_pc' = "ocr"
               /\ UNCHANGED extract_result
    /\ image_i' = 1
    /\ all_text' = <<>>
    /\ UNCHANGED <<use_ocr, pdf_exists, pdf_pages>>
    /\ UNCHANGED notExtractVars

\* one page of the loop at ocr_processor.py:240-250; the engine may raise
ExtractOcrPage ==
    /\ extract_pc = "ocr"
    /\ image_i <= Len(pdf_pages)
    /\ \E raises \in BOOLEAN :
          IF raises
          THEN /\ extract_result' = [extract_result EXCEPT !.error = TRUE]
               /\ extract_pc' = "done"
               /\ UNCHANGED <<image_i, all_text>>
          ELSE /\ all_text' = Append(all_text, PageText("ocr", pdf_pages[image_i].ocr))
               /\ image_i' = image_i + 1
               /\ UNCHANGED <<extract_result, extract_pc>>
    /\ UNCHANGED <<use_ocr, pdf_exists, pdf_pages>>
    /\ UNCHANGED notExtractVars

\* ocr_processor.py:252-264: the page texts, each under its "--- Page i ---"
\* line, become result['text']
ExtractOcrReturn ==
    /\ extract_pc = "ocr"
    /\ image_i > Len(pdf_pages)
    /\ extract_result' = [extract_result EXCEPT !.text = all_text,
                                                !.pages_processed = Len(pdf_pages)]
    /\ extract_pc' = "done"
    /\ UNCHANGED <<use_ocr, pdf_exists, pdf_pages, image_i, all_text>>
    /\ UNCHANGED notExtractVars

NextExtract ==
    ExtractStart \/ ExtractDirect \/ ExtractConvert \/ ExtractOcrPage \/ ExtractOcrReturn

(***************************************************************************)
(* Specifications.                                                         *)
(***************************************************************************)
\* Scan runs; every other operation is idle
InitScan ==
    /\ text_lines \in SeqsUpTo(BaselineLines, MaxLines) \cup BaselineTexts
    /\ fiscal_year \in {Year2023, Unknown}
    /\ line_i = 1
    /\ current_branch = None
    /\ current_category = None
    /\ current_budget_activity = None
    /\ current_ba_number = None
    /\ lines = <<>>
    /\ scan_pc = "scan"
    /\ ocr_text = <<>>
    /\ variant = "csv"
    /\ sections = <<>>
    /\ sec_i = 1
    /\ rows = <<>>
    /\ seg_pc = "idle"
    /\ reprog_text = <<>>
    /\ reprog_i = 1
    /\ reprog_lines = <<>>
    /\ reprog_pc = "idle"
    /\ year_site = "csv_transformer"
    /\ year_in = <<>>
    /\ year_out = <<>>
    /\ year_pc = "idle"
    /\ ocr_results = <<>>
    /\ res_i = 1
    /\ all_lines = <<>>
    /\ proc_pc = "idle"
    /\ df = <<>>
    /\ flows = <<>>
    /\ flow_dict = <<>>
    /\ aggregated_flows = <<>>
    /\ metadata = NoMetadata
    /\ sk_i = 1
    /\ sk_pc = "idle"
    /\ amount_variant = "enhanced"
    /\ amount_matches = <<>>
    /\ amount_dates = <<>>
    /\ amount_i = 1
    /\ amount_parsed = <<>>
    /\ amounts_list = <<>>
    /\ record = NewRecord
    /\ amount_pc = "idle"
    /\ batch_results = <<>>
    /\ batch_i = 1
    /\ output_files = <<>>
    /\ csv_written = <<>>
    /\ batch_pc = "idle"
    /\ main_pc = "idle"
    /\ run_no = 1
    /\ first_lines = <<>>
    /\ first_flows = <<>>
    /\ first_metadata = NoMetadata
    /\ page_count = 0
    /\ direct_pages = <<>>
    /\ ocr_pages = <<>>
    /\ page_num = 0
    /\ full_text = <<>>
    /\ confidence_scores = <<>>
    /\ raised_in = "none"
    /\ hybrid_result = NoHybridResult
    /\ dd_record = NoDD1414Record
    /\ hyb_pc = "idle"
    /\ pdf_files = <<>>
    /\ pipeline_results = <<>>
    /\ csv_files = <<>>
    /\ processed_files = NoProcessedFiles
    /\ saved_processed_files = NoProcessedFiles
    /\ pipe_pc = "idle"
    /\ pdfs = <<>>
    /\ new_pdfs = <<>>
    /\ download_i = 1
    /\ scraper_metadata = FreshMetadata
    /\ metadata_file = NoMetadataFile
    /\ disk = {}
    /\ runs_done = 0
    /\ downloaded_count = 0
    /\ scraper_pc = "idle"
    /\ use_ocr = TRUE
    /\ pdf_exists = TRUE
    /\ pdf_pages = <<>>
    /\ image_i = 1
    /\ all_text = <<>>
    /\ extract_result = NoExtractResult
    /\ extract_pc = "idle"

SpecScan == InitScan /\ [][NextScan]_vars

\* Seg runs; every other operation is idle
InitSeg ==
    /\ text_lines = <<>>
    /\ fiscal_year = Unknown
    /\ line_i = 1
    /\ current_branch = None
    /\ current_category = None
    /\ current_budget_activity = None
    /\ current_ba_number = None
    /\ lines = <<>>
    /\ scan_pc = "idle"
    /\ ocr_text \in SeqsUpTo(Tokens, MaxTokens) \cup AmountTexts \cup MarkerTexts
    /\ variant \in {"csv", "rule"}
    /\ sections = <<>>
    /\ sec_i = 1
    /\ rows = <<>>
    /\ seg_pc = "split"
    /\ reprog_text = <<>>
    /\ reprog_i = 1
    /\ reprog_lines = <<>>
    /\ reprog_pc = "idle"
    /\ year_site = "csv_transformer"
    /\ year_in = <<>>
    /\ year_out = <<>>
    /\ year_pc = "idle"
    /\ ocr_results = <<>>
    /\ res_i = 1
    /\ all_lines = <<>>
    /\ proc_pc = "idle"
    /\ df = <<>>
    /\ flows = <<>>
    /\ flow_dict = <<>>
    /\ aggregated_flows = <<>>
    /\ metadata = NoMetadata
    /\ sk_i = 1
    /\ sk_pc = "idle"
    /\ amount_variant = "enhanced"
    /\ amount_matches = <<>>
    /\ amount_dates = <<>>
    /\ amount_i = 1
    /\ amount_parsed = <<>>
    /\ amounts_list = <<>>
    /\ record = NewRecord
    /\ amount_pc = "idle"
    /\ batch_results = <<>>
    /\ batch_i = 1
    /\ output_files = <<>>
    /\ csv_written = <<>>
    /\ batch_pc = "idle"
    /\ main_pc = "idle"
    /\ run_no = 1
    /\ first_lines = <<>>
    /\ first_flows = <<>>
    /\ first_metadata = NoMetadata
    /\ page_count = 0
    /\ direct_pages = <<>>
    /\ ocr_pages = <<>>
    /\ page_num = 0
    /\ full_text = <<>>
    /\ confidence_scores = <<>>
    /\ raised_in = "none"
    /\ hybrid_result = NoHybridResult
    /\ dd_record = NoDD1414Record
    /\ hyb_pc = "idle"
    /\ pdf_files = <<>>
    /\ pipeline_results = <<>>
    /\ csv_files = <<>>
    /\ processed_files = NoProcessedFiles
    /\ saved_processed_files = NoProcessedFiles
    /\ pipe_pc = "idle"
    /\ pdfs = <<>>
    /\ new_pdfs = <<>>
    /\ download_i = 1
    /\ scraper_metadata = FreshMetadata
    /\ metadata_file = NoMetadataFile
    /\ disk = {}
    /\ runs_done = 0
    /\ downloaded_count = 0
    /\ scraper_pc = "idle"
    /\ use_ocr = TRUE
    /\ pdf_exists = TRUE
    /\ pdf_pages = <<>>
    /\ image_i = 1
    /\ all_text = <<>>
    /\ extract_result = NoExtractResult
    /\ extract_pc = "idle"

SpecSeg == InitSeg /\ [][NextSeg]_vars

\* Reprog runs; every other operation is idle
InitReprog ==
    /\ text_lines = <<>>
    /\ fiscal_year = Unknown
    /\ line_i = 1
    /\ current_branch = None
    /\ current_category = None
    /\ current_budget_activity = None
    /\ current_ba_number = None
    /\ lines = <<>>
    /\ scan_pc = "idle"
    /\ ocr_text = <<>>
    /\ variant = "csv"
    /\ sections = <<>>
    /\ sec_i = 1
    /\ rows = <<>>
    /\ seg_pc = "idle"
    /\ reprog_text \in SeqsUpTo(ReprogLines, MaxItems) \cup {ExampleText}
    /\ reprog_i = 1
    /\ reprog_lines = <<>>
    /\ reprog_pc = "scan"
    /\ year_site = "csv_transformer"
    /\ year_in = <<>>
    /\ year_out = <<>>
    /\ year_pc = "idle"
    /\ ocr_results = <<>>
    /\ res_i = 1
    /\ all_lines = <<>>
    /\ proc_pc = "idle"
    /\ df = <<>>
    /\ flows = <<>>
    /\ flow_dict = <<>>
    /\ aggregated_flows = <<>>
    /\ metadata = NoMetadata
    /\ sk_i = 1
    /\ sk_pc = "idle"
    /\ amount_variant = "enhanced"
    /\ amount_matches = <<>>
    /\ amount_dates = <<>>
    /\ amount_i = 1
    /\ amount_parsed = <<>>
    /\ amounts_list = <<>>
    /\ record = NewRecord
    /\ amount_pc = "idle"
    /\ batch_results = <<>>
    /\ batch_i = 1
    /\ output_files = <<>>
    /\ csv_written = <<>>
    /\ batch_pc = "idle"
    /\ main_pc = "idle"
    /\ run_no = 1
    /\ first_lines = <<>>
    /\ first_flows = <<>>
    /\ first_metadata = NoMetadata
    /\ page_count = 0
    /\ direct_pages = <<>>
    /\ ocr_pages = <<>>
    /\ page_num = 0
    /\ full_text = <<>>
    /\ confidence_scores = <<>>
    /\ raised_in = "none"
    /\ hybrid_result = NoHybridResult
    /\ dd_record = NoDD1414Record
    /\ hyb_pc = "idle"
    /\ pdf_files = <<>>
    /\ pipeline_results = <<>>
    /\ csv_files = <<>>
    /\ processed_files = NoProcessedFiles
    /\ saved_processed_files = NoProcessedFiles
    /\ pipe_pc = "idle"
    /\ pdfs = <<>>
    /\ new_pdfs = <<>>
    /\ download_i = 1
    /\ scraper_metadata = FreshMetadata
    /\ metadata_file = NoMetadataFile
    /\ disk = {}
    /\ runs_done = 0
    /\ downloaded_count = 0
    /\ scraper_pc = "idle"
    /\ use_ocr = TRUE
    /\ pdf_exists = TRUE
    /\ pdf_pages = <<>>
    /\ image_i = 1
    /\ all_text = <<>>
    /\ extract_result = NoExtractResult
    /\ extract_pc = "idle"

SpecReprog == InitReprog /\ [][NextReprog]_vars

\* Year runs; every other operation is idle
InitYear ==
    /\ text_lines = <<>>
    /\ fiscal_year = Unknown
    /\ line_i = 1
    /\ current_branch = None
    /\ current_category = None
    /\ current_budget_activity = None
    /\ current_ba_number = None
    /\ lines = <<>>
    /\ scan_pc = "idle"
    /\ ocr_text = <<>>
    /\ variant = "csv"
    /\ sections = <<>>
    /\ sec_i = 1
    /\ rows = <<>>
    /\ seg_pc = "idle"
    /\ reprog_text = <<>>
    /\ reprog_i = 1
    /\ reprog_lines = <<>>
    /\ reprog_pc = "idle"
    /\ year_site \in YearSites
    /\ year_in \in YearInputs(year_site)
    /\ year_out = <<>>
    /\ year_pc = "match"
    /\ ocr_results = <<>>
    /\ res_i = 1
    /\ all_lines = <<>>
    /\ proc_pc = "idle"
    /\ df = <<>>
    /\ flows = <<>>
    /\ flow_dict = <<>>
    /\ aggregated_flows = <<>>
    /\ metadata = NoMetadata
    /\ sk_i = 1
    /\ sk_pc = "idle"
    /\ amount_variant = "enhanced"
    /\ amount_matches = <<>>
    /\ amount_dates = <<>>
    /\ amount_i = 1
    /\ amount_parsed = <<>>
    /\ amounts_list = <<>>
    /\ record = NewRecord
    /\ amount_pc = "idle"
    /\ batch_results = <<>>
    /\ batch_i = 1
    /\ output_files = <<>>
    /\ csv_written = <<>>
    /\ batch_pc = "idle"
    /\ main_pc = "idle"
    /\ run_no = 1
    /\ first_lines = <<>>
    /\ first_flows = <<>>
    /\ first_metadata = NoMetadata
    /\ page_count = 0
    /\ direct_pages = <<>>
    /\ ocr_pages = <<>>
    /\ page_num = 0
    /\ full_text = <<>>
    /\ confidence_scores = <<>>
    /\ raised_in = "none"
    /\ hybrid_result = NoHybridResult
    /\ dd_record = NoDD1414Record
    /\ hyb_pc = "idle"
    /\ pdf_files = <<>>
    /\ pipeline_results = <<>>
    /\ csv_files = <<>>
    /\ processed_files = NoProcessedFiles
    /\ saved_processed_files = NoProcessedFiles
    /\ pipe_pc = "idle"
    /\ pdfs = <<>>
    /\ new_pdfs = <<>>
    /\ download_i = 1
    /\ scraper_metadata = FreshMetadata
    /\ metadata_file = NoMetadataFile
    /\ disk = {}
    /\ runs_done = 0
    /\ downloaded_count = 0
    /\ scraper_pc = "idle"
    /\ use_ocr = TRUE
    /\ pdf_exists = TRUE
    /\ pdf_pages = <<>>
    /\ image_i = 1
    /\ all_text = <<>>
    /\ extract_result = NoExtractResult
    /\ extract_pc = "idle"

SpecYear == InitYear /\ [][NextYear]_vars

\* Proc runs; every other operation is idle
InitProc ==
    /\ text_lines = <<>>
    /\ fiscal_year = Unknown
    /\ line_i = 1
    /\ current_branch = None
    /\ current_category = None
    /\ current_budget_activity = None
    /\ current_ba_number = None
    /\ lines = <<>>
    /\ scan_pc = "idle"
    /\ ocr_text = <<>>
    /\ variant = "csv"
    /\ sections = <<>>
    /\ sec_i = 1
    /\ rows = <<>>
    /\ seg_pc = "idle"
    /\ reprog_text = <<>>
    /\ reprog_i = 1
    /\ reprog_lines = <<>>
    /\ reprog_pc = "idle"
    /\ year_site = "csv_transformer"
    /\ year_in = <<>>
    /\ year_out = <<>>
    /\ year_pc = "idle"
    /\ ocr_results \in SeqsUpTo(Docs, MaxDocs)
    /\ res_i = 1
    /\ all_lines = <<>>
    /\ proc_pc = "loop"
    /\ df = <<>>
    /\ flows = <<>>
    /\ flow_dict = <<>>
    /\ aggregated_flows = <<>>
    /\ metadata = NoMetadata
    /\ sk_i = 1
    /\ sk_pc = "idle"
    /\ amount_variant = "enhanced"
    /\ amount_matches = <<>>
    /\ amount_dates = <<>>
    /\ amount_i = 1
    /\ amount_parsed = <<>>
    /\ amounts_list = <<>>
    /\ record = NewRecord
    /\ amount_pc = "idle"
    /\ batch_results = [k \in DOMAIN ocr_results |-> CsvResult(ocr_results[k])]
    /\ batch_i = 1
    /\ output_files = <<>>
    /\ csv_written = <<>>
    /\ batch_pc = "loop"
    /\ main_pc = "idle"
    /\ run_no = 1
    /\ first_lines = <<>>
    /\ first_flows = <<>>
    /\ first_metadata = NoMetadata
    /\ page_count = 0
    /\ direct_pages = <<>>
    /\ ocr_pages = <<>>
    /\ page_num = 0
    /\ full_text = <<>>
    /\ confidence_scores = <<>>
    /\ raised_in = "none"
    /\ hybrid_result = NoHybridResult
    /\ dd_record = NoDD1414Record
    /\ hyb_pc = "idle"
    /\ pdf_files = <<>>
    /\ pipeline_results = <<>>
    /\ csv_files = <<>>
    /\ processed_files = NoProcessedFiles
    /\ saved_processed_files = NoProcessedFiles
    /\ pipe_pc = "idle"
    /\ pdfs = <<>>
    /\ new_pdfs = <<>>
    /\ download_i = 1
    /\ scraper_metadata = FreshMetadata
    /\ metadata_file = NoMetadataFile
    /\ disk = {}
    /\ runs_done = 0
    /\ downloaded_count = 0
    /\ scraper_pc = "idle"
    /\ use_ocr = TRUE
    /\ pdf_exists = TRUE
    /\ pdf_pages = <<>>
    /\ image_i = 1
    /\ all_text = <<>>
    /\ extract_result = NoExtractResult
    /\ extract_pc = "idle"

SpecProc == InitProc /\ [][NextProc]_vars

\* Sankey runs; every other operation is idle
InitSankey ==
    /\ text_lines = <<>>
    /\ fiscal_year = Unknown
    /\ line_i = 1
    /\ current_branch = None
    /\ current_category = None
    /\ current_budget_activity = None
    /\ current_ba_number = None
    /\ lines = <<>>
    /\ scan_pc = "idle"
    /\ ocr_text = <<>>
    /\ variant = "csv"
    /\ sections = <<>>
    /\ sec_i = 1
    /\ rows = <<>>
    /\ seg_pc = "idle"
    /\ reprog_text = <<>>
    /\ reprog_i = 1
    /\ reprog_lines = <<>>
    /\ reprog_pc = "idle"
    /\ year_site = "csv_transformer"
    /\ year_in = <<>>
    /\ year_out = <<>>
    /\ year_pc = "idle"
    /\ ocr_results = <<>>
    /\ res_i = 1
    /\ all_lines = <<>>
    /\ proc_pc = "idle"
    /\ df \in SeqsUpTo(DfRows, MaxRecords)
    /\ flows = <<>>
    /\ flow_dict = <<>>
    /\ aggregated_flows = <<>>
    /\ metadata = NoMetadata
    /\ sk_i = 1
    /\ sk_pc = "reprog"
    /\ amount_variant = "enhanced"
    /\ amount_matches = <<>>
    /\ amount_dates = <<>>
    /\ amount_i = 1
    /\ amount_parsed = <<>>
    /\ amounts_list = <<>>
    /\ record = NewRecord
    /\ amount_pc = "idle"
    /\ batch_results = <<>>
    /\ batch_i = 1
    /\ output_files = <<>>
    /\ csv_written = <<>>
    /\ batch_pc = "idle"
    /\ main_pc = "idle"
    /\ run_no = 1
    /\ first_lines = <<>>
    /\ first_flows = <<>>
    /\ first_metadata = NoMetadata
    /\ page_count = 0
    /\ direct_pages = <<>>
    /\ ocr_pages = <<>>
    /\ page_num = 0
    /\ full_text = <<>>
    /\ confidence_scores = <<>>
    /\ raised_in = "none"
    /\ hybrid_result = NoHybridResult
    /\ dd_record = NoDD1414Record
    /\ hyb_pc = "idle"
    /\ pdf_files = <<>>
    /\ pipeline_results = <<>>
    /\ csv_files = <<>>
    /\ processed_files = NoProcessedFiles
    /\ saved_processed_files = NoProcessedFiles
    /\ pipe_pc = "idle"
    /\ pdfs = <<>>
    /\ new_pdfs = <<>>
    /\ download_i = 1
    /\ scraper_metadata = FreshMetadata
    /\ metadata_file = NoMetadataFile
    /\ disk = {}
    /\ runs_done = 0
    /\ downloaded_count = 0
    /\ scraper_pc = "idle"
    /\ use_ocr = TRUE
    /\ pdf_exists = TRUE
    /\ pdf_pages = <<>>
    /\ image_i = 1
    /\ all_text = <<>>
    /\ extract_result = NoExtractResult
    /\ extract_pc = "idle"

SpecSankey == InitSankey /\ [][NextSankey]_vars

\* Amount runs: on one string of any shape, or on the captures of a text
InitAmount ==
    /\ text_lines = <<>>
    /\ fiscal_year = Unknown
    /\ line_i = 1
    /\ current_branch = None
    /\ current_category = None
    /\ current_budget_activity = None
    /\ current_ba_number = None
    /\ lines = <<>>
    /\ scan_pc = "idle"
    /\ ocr_text = <<>>
    /\ variant = "csv"
    /\ sections = <<>>
    /\ sec_i = 1
    /\ rows = <<>>
    /\ seg_pc = "idle"
    /\ reprog_text = <<>>
    /\ reprog_i = 1
    /\ reprog_lines = <<>>
    /\ reprog_pc = "idle"
    /\ year_site = "csv_transformer"
    /\ year_in = <<>>
    /\ year_out = <<>>
    /\ year_pc = "idle"
    /\ ocr_results = <<>>
    /\ res_i = 1
    /\ all_lines = <<>>
    /\ proc_pc = "idle"
    /\ df = <<>>
    /\ flows = <<>>
    /\ flow_dict = <<>>
    /\ aggregated_flows = <<>>
    /\ metadata = NoMetadata
    /\ sk_i = 1
    /\ sk_pc = "idle"
    /\ amount_variant \in {"enhanced", "fast"}
    /\ amount_matches \in {<<s>> : s \in AmountInputs} \cup SeqsUpTo(Captures, MaxMatches)
    /\ amount_dates \in DateLists
    /\ amount_i = 1
    /\ amount_parsed = <<>>
    /\ amounts_list = <<>>
    /\ record = NewRecord
    /\ amount_pc = "amounts"
    /\ batch_results = <<>>
    /\ batch_i = 1
    /\ output_files = <<>>
    /\ csv_written = <<>>
    /\ batch_pc = "idle"
    /\ main_pc = "idle"
    /\ run_no = 1
    /\ first_lines = <<>>
    /\ first_flows = <<>>
    /\ first_metadata = NoMetadata
    /\ page_count = 0
    /\ direct_pages = <<>>
    /\ ocr_pages = <<>>
    /\ page_num = 0
    /\ full_text = <<>>
    /\ confidence_scores = <<>>
    /\ raised_in = "none"
    /\ hybrid_result = NoHybridResult
    /\ dd_record = NoDD1414Record
    /\ hyb_pc = "idle"
    /\ pdf_files = <<>>
    /\ pipeline_results = <<>>
    /\ csv_files = <<>>
    /\ processed_files = NoProcessedFiles
    /\ saved_processed_files = NoProcessedFiles
    /\ pipe_pc = "idle"
    /\ pdfs = <<>>
    /\ new_pdfs = <<>>
    /\ download_i = 1
    /\ scraper_metadata = FreshMetadata
    /\ metadata_file = NoMetadataFile
    /\ disk = {}
    /\ runs_done = 0
    /\ downloaded_count = 0
    /\ scraper_pc = "idle"
    /\ use_ocr = TRUE
    /\ pdf_exists = TRUE
    /\ pdf_pages = <<>>
    /\ image_i = 1
    /\ all_text = <<>>
    /\ extract_result = NoExtractResult
    /\ extract_pc = "idle"

SpecAmount == InitAmount /\ [][NextAmount]_vars

\* Main runs the assembler and the aggregator on the same results, twice
InitMain ==
    /\ text_lines = <<>>
    /\ fiscal_year = Unknown
    /\ line_i = 1
    /\ current_branch = None
    /\ current_category = None
    /\ current_budget_activity = None
    /\ current_ba_number = None
    /\ lines = <<>>
    /\ scan_pc = "idle"
    /\ ocr_text = <<>>
    /\ variant = "csv"
    /\ sections = <<>>
    /\ sec_i = 1
    /\ rows = <<>>
    /\ seg_pc = "idle"
    /\ reprog_text = <<>>
    /\ reprog_i = 1
    /\ reprog_lines = <<>>
    /\ reprog_pc = "idle"
    /\ year_site = "csv_transformer"
    /\ year_in = <<>>
    /\ year_out = <<>>
    /\ year_pc = "idle"
    /\ ocr_results \in SeqsUpTo(Docs, MaxDocs)
    /\ res_i = 1
    /\ all_lines = <<>>
    /\ proc_pc = "loop"
    /\ df = <<>>
    /\ flows = <<>>
    /\ flow_dict = <<>>
    /\ aggregated_flows = <<>>
    /\ metadata = NoMetadata
    /\ sk_i = 1
    /\ sk_pc = "idle"
    /\ amount_variant = "enhanced"
    /\ amount_matches = <<>>
    /\ amount_dates = <<>>
    /\ amount_i = 1
    /\ amount_parsed = <<>>
    /\ amounts_list = <<>>
    /\ record = NewRecord
    /\ amount_pc = "idle"
    /\ batch_results = <<>>
    /\ batch_i = 1
    /\ output_files = <<>>
    /\ csv_written = <<>>
    /\ batch_pc = "idle"
    /\ main_pc = "run"
    /\ run_no = 1
    /\ first_lines = <<>>
    /\ first_flows = <<>>
    /\ first_metadata = NoMetadata
    /\ page_count = 0
    /\ direct_pages = <<>>
    /\ ocr_pages = <<>>
    /\ page_num = 0
    /\ full_text = <<>>
    /\ confidence_scores = <<>>
    /\ raised_in = "none"
    /\ hybrid_result = NoHybridResult
    /\ dd_record = NoDD1414Record
    /\ hyb_pc = "idle"
    /\ pdf_files = <<>>
    /\ pipeline_results = <<>>
    /\ csv_files = <<>>
    /\ processed_files = NoProcessedFiles
    /\ saved_processed_files = NoProcessedFiles
    /\ pipe_pc = "idle"
    /\ pdfs = <<>>
    /\ new_pdfs = <<>>
    /\ download_i = 1
    /\ scraper_metadata = FreshMetadata
    /\ metadata_file = NoMetadataFile
    /\ disk = {}
    /\ runs_done = 0
    /\ downloaded_count = 0
    /\ scraper_pc = "idle"
    /\ use_ocr = TRUE
    /\ pdf_exists = TRUE
    /\ pdf_pages = <<>>
    /\ image_i = 1
    /\ all_text = <<>>
    /\ extract_result = NoExtractResult
    /\ extract_pc = "idle"

SpecMain == InitMain /\ [][NextMain]_vars

\* Hybrid runs process_dd1414_pdf on one PDF of up to MaxPages pages
InitHybrid ==
    /\ text_lines = <<>>
    /\ fiscal_year = Unknown
    /\ line_i = 1
    /\ current_branch = None
    /\ current_category = None
    /\ current_budget_activity = None
    /\ current_ba_number = None
    /\ lines = <<>>
    /\ scan_pc = "idle"
    /\ ocr_text = <<>>
    /\ variant = "csv"
    /\ sections = <<>>
    /\ sec_i = 1
    /\ rows = <<>>
    /\ seg_pc = "idle"
    /\ reprog_text = <<>>
    /\ reprog_i = 1
    /\ reprog_lines = <<>>
    /\ reprog_pc = "idle"
    /\ year_site = "csv_transformer"
    /\ year_in = <<>>
    /\ year_out = <<>>
    /\ year_pc = "idle"
    /\ ocr_results = <<>>
    /\ res_i = 1
    /\ all_lines = <<>>
    /\ proc_pc = "idle"
    /\ df = <<>>
    /\ flows = <<>>
    /\ flow_dict = <<>>
    /\ aggregated_flows = <<>>
    /\ metadata = NoMetadata
    /\ sk_i = 1
    /\ sk_pc = "idle"
    /\ amount_variant = "enhanced"
    /\ amount_matches = <<>>
    /\ amount_dates = <<>>
    /\ amount_i = 1
    /\ amount_parsed = <<>>
    /\ amounts_list = <<>>
    /\ record = NewRecord
    /\ amount_pc = "idle"
    /\ batch_results = <<>>
    /\ batch_i = 1
    /\ output_files = <<>>
    /\ csv_written = <<>>
    /\ batch_pc = "idle"
    /\ main_pc = "idle"
    /\ run_no = 1
    /\ first_lines = <<>>
    /\ first_flows = <<>>
    /\ first_metadata = NoMetadata
    /\ page_count \in 0..MaxPages
    /\ direct_pages = <<>>
    /\ ocr_pages = <<>>
    /\ page_num = 0
    /\ full_text = <<>>
    /\ confidence_scores = <<>>
    /\ raised_in = "none"
    /\ hybrid_result = NoHybridResult
    /\ dd_record = NoDD1414Record
    /\ hyb_pc = "stat"
    /\ pdf_files = <<>>
    /\ pipeline_results = <<>>
    /\ csv_files = <<>>
    /\ processed_files = NoProcessedFiles
    /\ saved_processed_files = NoProcessedFiles
    /\ pipe_pc = "idle"
    /\ pdfs = <<>>
    /\ new_pdfs = <<>>
    /\ download_i = 1
    /\ scraper_metadata = FreshMetadata
    /\ metadata_file = NoMetadataFile
    /\ disk = {}
    /\ runs_done = 0
    /\ downloaded_count = 0
    /\ scraper_pc = "idle"
    /\ use_ocr = TRUE
    /\ pdf_exists = TRUE
    /\ pdf_pages = <<>>
    /\ image_i = 1
    /\ all_text = <<>>
    /\ extract_result = NoExtractResult
    /\ extract_pc = "idle"

SpecHybrid == InitHybrid /\ [][NextHybrid]_vars

\* Pipe runs steps 3 to 5 of main on up to MaxPdfs PDFs that are not processed yet
InitPipe ==
    /\ text_lines = <<>>
    /\ fiscal_year = Unknown
    /\ line_i = 1
    /\ current_branch = None
    /\ current_category = None
    /\ current_budget_activity = None
    /\ current_ba_number = None
    /\ lines = <<>>
    /\ scan_pc = "idle"
    /\ ocr_text = <<>>
    /\ variant = "csv"
    /\ sections = <<>>
    /\ sec_i = 1
    /\ rows = <<>>
    /\ seg_pc = "idle"
    /\ reprog_text = <<>>
    /\ reprog_i = 1
    /\ reprog_lines = <<>>
    /\ reprog_pc = "idle"
    /\ year_site = "csv_transformer"
    /\ year_in = <<>>
    /\ year_out = <<>>
    /\ year_pc = "idle"
    /\ ocr_results = <<>>
    /\ res_i = 1
    /\ all_lines = <<>>
    /\ proc_pc = "idle"
    /\ df = <<>>
    /\ flows = <<>>
    /\ flow_dict = <<>>
    /\ aggregated_flows = <<>>
    /\ metadata = NoMetadata
    /\ sk_i = 1
    /\ sk_pc = "idle"
    /\ amount_variant = "enhanced"
    /\ amount_matches = <<>>
    /\ amount_dates = <<>>
    /\ amount_i = 1
    /\ amount_parsed = <<>>
    /\ amounts_list = <<>>
    /\ record = NewRecord
    /\ amount_pc = "idle"
    /\ batch_results = <<>>
    /\ batch_i = 1
    /\ output_files = <<>>
    /\ csv_written = <<>>
    /\ batch_pc = "idle"
    /\ main_pc = "idle"
    /\ run_no = 1
    /\ first_lines = <<>>
    /\ first_flows = <<>>
    /\ first_metadata = NoMetadata
    /\ page_count = 0
    /\ direct_pages = <<>>
    /\ ocr_pages = <<>>
    /\ page_num = 0
    /\ full_text = <<>>
    /\ confidence_scores = <<>>
    /\ raised_in = "none"
    /\ hybrid_result = NoHybridResult
    /\ dd_record = NoDD1414Record
    /\ hyb_pc = "idle"
    /\ pdf_files \in PdfLists
    /\ pipeline_results = <<>>
    /\ csv_files = <<>>
    /\ processed_files = NoProcessedFiles
    /\ saved_processed_files = NoProcessedFiles
    /\ pipe_pc = "ocr"
    /\ pdfs = <<>>
    /\ new_pdfs = <<>>
    /\ download_i = 1
    /\ scraper_metadata = FreshMetadata
    /\ metadata_file = NoMetadataFile
    /\ disk = {}
    /\ runs_done = 0
    /\ downloaded_count = 0
    /\ scraper_pc = "idle"
    /\ use_ocr = TRUE
    /\ pdf_exists = TRUE
    /\ pdf_pages = <<>>
    /\ image_i = 1
    /\ all_text = <<>>
    /\ extract_result = NoExtractResult
    /\ extract_pc = "idle"

SpecPipe == InitPipe /\ [][NextPipe]_vars

\* Scraper runs ComptrollerScraper.run up to MaxRuns times, from no metadata file and an empty directory
InitScraper ==
    /\ text_lines = <<>>
    /\ fiscal_year = Unknown
    /\ line_i = 1
    /\ current_branch = None
    /\ current_category = None
    /\ current_budget_activity = None
    /\ current_ba_number = None
    /\ lines = <<>>
    /\ scan_pc = "idle"
    /\ ocr_text = <<>>
    /\ variant = "csv"
    /\ sections = <<>>
    /\ sec_i = 1
    /\ rows = <<>>
    /\ seg_pc = "idle"
    /\ reprog_text = <<>>
    /\ reprog_i = 1
    /\ reprog_lines = <<>>
    /\ reprog_pc = "idle"
    /\ year_site = "csv_transformer"
    /\ year_in = <<>>
    /\ year_out = <<>>
    /\ year_pc = "idle"
    /\ ocr_results = <<>>
    /\ res_i = 1
    /\ all_lines = <<>>
    /\ proc_pc = "idle"
    /\ df = <<>>
    /\ flows = <<>>
    /\ flow_dict = <<>>
    /\ aggregated_flows = <<>>
    /\ metadata = NoMetadata
    /\ sk_i = 1
    /\ sk_pc = "idle"
    /\ amount_variant = "enhanced"
    /\ amount_matches = <<>>
    /\ amount_dates = <<>>
    /\ amount_i = 1
    /\ amount_parsed = <<>>
    /\ amounts_list = <<>>
    /\ record = NewRecord
    /\ amount_pc = "idle"
    /\ batch_results = <<>>
    /\ batch_i = 1
    /\ output_files = <<>>
    /\ csv_written = <<>>
    /\ batch_pc = "idle"
    /\ main_pc = "idle"
    /\ run_no = 1
    /\ first_lines = <<>>
    /\ first_flows = <<>>
    /\ first_metadata = NoMetadata
    /\ page_count = 0
    /\ direct_pages = <<>>
    /\ ocr_pages = <<>>
    /\ page_num = 0
    /\ full_text = <<>>
    /\ confidence_scores = <<>>
    /\ raised_in = "none"
    /\ hybrid_result = NoHybridResult
    /\ dd_record = NoDD1414Record
    /\ hyb_pc = "idle"
    /\ pdf_files = <<>>
    /\ pipeline_results = <<>>
    /\ csv_files = <<>>
    /\ processed_files = NoProcessedFiles
    /\ saved_processed_files = NoProcessedFiles
    /\ pipe_pc = "idle"
    /\ pdfs = <<>>
    /\ new_pdfs = <<>>
    /\ download_i = 1
    /\ scraper_metadata = FreshMetadata
    /\ metadata_file = NoMetadataFile
    /\ disk = {}
    /\ runs_done = 0
    /\ downloaded_count = 0
    /\ scraper_pc = "start"
    /\ use_ocr = TRUE
    /\ pdf_exists = TRUE
    /\ pdf_pages = <<>>
    /\ image_i = 1
    /\ all_text = <<>>
    /\ extract_result = NoExtractResult
    /\ extract_pc = "idle"

SpecScraper == InitScraper /\ [][NextScraper]_vars

\* Extract runs extract_from_pdf on one PDF of up to MaxPages pages
InitExtract ==
    /\ text_lines = <<>>
    /\ fiscal_year = Unknown
    /\ line_i = 1
    /\ current_branch = None
    /\ current_category = None
    /\ current_budget_activity = None
    /\ current_ba_number = None
    /\ lines = <<>>
    /\ scan_pc = "idle"
    /\ ocr_text = <<>>
    /\ variant = "csv"
    /\ sections = <<>>
    /\ sec_i = 1
    /\ rows = <<>>
    /\ seg_pc = "idle"
    /\ reprog_text = <<>>
    /\ reprog_i = 1
    /\ reprog_lines = <<>>
    /\ reprog_pc = "idle"
    /\ year_site = "csv_transformer"
    /\ year_in = <<>>
    /\ year_out = <<>>
    /\ year_pc = "idle"
    /\ ocr_results = <<>>
    /\ res_i = 1
    /\ all_lines = <<>>
    /\ proc_pc = "idle"
    /\ df = <<>>
    /\ flows = <<>>
    /\ flow_dict = <<>>
    /\ aggregated_flows = <<>>
    /\ metadata = NoMetadata
    /\ sk_i = 1
    /\ sk_pc = "idle"
    /\ amount_variant = "enhanced"
    /\ amount_matches = <<>>
    /\ amount_dates = <<>>
    /\ amount_i = 1
    /\ amount_parsed = <<>>
    /\ amounts_list = <<>>
    /\ record = NewRecord
    /\ amount_pc = "idle"
    /\ batch_results = <<>>
    /\ batch_i = 1
    /\ output_files = <<>>
    /\ csv_written = <<>>
    /\ batch_pc = "idle"
    /\ main_pc = "idle"
    /\ run_no = 1
    /\ first_lines = <<>>
    /\ first_flows = <<>>
    /\ first_metadata = NoMetadata
    /\ page_count = 0
    /\ direct_pages = <<>>
    /\ ocr_pages = <<>>
    /\ page_num = 0
    /\ full_text = <<>>
    /\ confidence_scores = <<>>
    /\ raised_in = "none"
    /\ hybrid_result = NoHybridResult
    /\ dd_record = NoDD1414Record
    /\ hyb_pc = "idle"
    /\ pdf_files = <<>>
    /\ pipeline_results = <<>>
    /\ csv_files = <<>>
    /\ processed_files = NoProcessedFiles
    /\ saved_processed_files = NoProcessedFiles
    /\ pipe_pc = "idle"
    /\ pdfs = <<>>
    /\ new_pdfs = <<>>
    /\ download_i = 1
    /\ scraper_metadata = FreshMetadata
    /\ metadata_file = NoMetadataFile
    /\ disk = {}
    /\ runs_done = 0
    /\ downloaded_count = 0
    /\ scraper_pc = "idle"
    /\ use_ocr \in BOOLEAN
    /\ pdf_exists \in BOOLEAN
    /\ pdf_pages \in SeqsUpTo(PdfPages, MaxPages)
    /\ image_i = 1
    /\ all_text = <<>>
    /\ extract_result = NoExtractResult
    /\ extract_pc = "start"

SpecExtract == InitExtract /\ [][NextExtract]_vars

(***************************************************************************)
(* Properties.                                                             *)
(***************************************************************************)
\* a line the appropriation-title branch of the scan handles
IsTitleLine(line) == ~(line.len = 0 \/ line.len < 10) /\ line.approp # <<>>

\* the pointer values set by the last appropriation-title line before line n
PointerAt(n) ==
    LET titles == {j \in 1..(n - 1) : IsTitleLine(text_lines[j])}
    IN  IF titles = {} THEN <<None, None>>
        ELSE LET j == CHOOSE x \in titles : \A y \in titles : y <= x
             IN  <<NormCategory(text_lines[j].approp[1]),
                   NormBranch(text_lines[j].approp[2])>>

\* C1: in the baseline scan the category and branch pointers are, at every
\* line, those of the most recent appropriation-title line scanned so far
\* (None before the first one): no other line changes them; and every
\* emitted record carries the pointers of the most recent appropriation-title
\* line before its data line.
C1_PointersPersist ==
    scan_pc \in {"scan", "done"} =>
        /\ <<current_category, current_branch>> = PointerAt(line_i)
        /\ \A k \in 1..Len(lines) :
              /\ PointerAt(lines[k].line_no) # <<None, None>>
              /\ <<lines[k].appropriation_category, lines[k].branch>>
                     = PointerAt(lines[k].line_no)

\* a record emitted for a data line that is separated from its title line by
\* a Budget Activity header
C1_Witness ==
    /\ scan_pc = "done"
    /\ \E k \in 1..Len(lines) :
          /\ lines[k].line_no >= 3
          /\ IsTitleLine(text_lines[lines[k].line_no - 2])
          /\ text_lines[lines[k].line_no - 1].ba # <<>>
          /\ ~IsTitleLine(text_lines[lines[k].line_no - 1])

\* offsets at which an organizational-unit marker starts
MarkerOffsets ==
    {Offset(ocr_text, k) : k \in {j \in 1..Len(ocr_text) : ocr_text[j].kind = "marker"}}

\* C2: the sections of both segmenters are ordered and do not overlap: each
\* has start <= end, each ends where the next starts, which is the start of
\* a marker, and the last one ends at the end of the document.
C2_SectionsPartition ==
    seg_pc \in {"loop", "done"} =>
        LET sp == SectionSpans
            n == Len(sp)
        IN  /\ \A k \in 1..n : sp[k][1] <= sp[k][2]
            /\ \A k \in 1..(n - 1) :
                  /\ sp[k][2] = sp[k + 1][1]
                  /\ sp[k][2] \in MarkerOffsets
                  /\ sp[k][1] < sp[k + 1][1]
            /\ n >= 1 => sp[n][2] = TextLen(ocr_text)
            /\ MarkerOffsets # {} => {sp[k][1] : k \in 1..n} = MarkerOffsets

\* a document with at least two sections, all processed
C2_Witness ==
    /\ seg_pc = "done"
    /\ Len(SectionSpans) >= 2
    /\ SectionSpans[1][2] < TextLen(ocr_text)

RECURSIVE SumValues(_, _)
\* sum of the values of the flows fl[k], k in the set S
SumValues(fl, S) ==
    IF S = {} THEN 0
    ELSE LET k == CHOOSE x \in S : TRUE IN fl[k].value + SumValues(fl, S \ {k})

EdgeKey(e) == <<e.source, e.target, e.type>>

\* the edge list holds one edge per key of the flows fl, with the summed value
EdgesSumFlows(edges, fl) ==
    /\ \A i, j \in 1..Len(edges) : EdgeKey(edges[i]) = EdgeKey(edges[j]) => i = j
    /\ {EdgeKey(edges[i]) : i \in 1..Len(edges)} = {FlowKey(fl[k]) : k \in 1..Len(fl)}
    /\ \A i \in 1..Len(edges) :
          /\ edges[i].value
                 = SumValues(fl, {k \in 1..Len(fl) : FlowKey(fl[k]) = EdgeKey(edges[i])})
          /\ edges[i].value >= 0

\* every edge of `small` is an edge of `big` with no smaller value
EdgesGrow(small, big) ==
    \A i \in 1..Len(small) : \E j \in 1..Len(big) :
        /\ EdgeKey(big[j]) = EdgeKey(small[i])
        /\ big[j].value >= small[i].value

C3_State ==
    /\ sk_pc = "aggregate" =>
          EdgesSumFlows(AggregatedFlows(flow_dict), SubSeq(flows, 1, sk_i - 1))
    /\ sk_pc = "done" =>
          /\ EdgesSumFlows(aggregated_flows, flows)
          /\ \A n \in 0..Len(df) :
                EdgesGrow(CreateSankey(SubSeq(df, 1, n)), aggregated_flows)

C3_Step ==
    \A k \in 1..Len(flow_dict) : \E j \in 1..Len(flow_dict') :
        /\ flow_dict'[j].key = flow_dict[k].key
        /\ flow_dict'[j].value >= flow_dict[k].value

\* C3: the aggregation holds one edge per (source, target, type) key, valued
\* with the sum of the flows of that key and never negative; no step of the
\* aggregation removes an edge or lowers its value, and the edges of any
\* prefix of the records are edges of the whole with no smaller value.
C3_EdgesSumAndGrow == [](C3_State) /\ [][C3_Step]_vars

\* an edge that sums two or more flows
C3_Witness ==
    /\ sk_pc = "done"
    /\ \E i \in 1..Len(aggregated_flows) :
          /\ Cardinality({k \in 1..Len(flows) :
                            FlowKey(flows[k]) = EdgeKey(aggregated_flows[i])}) >= 2
          /\ aggregated_flows[i].value > 0

SeqToSet(sq) == {sq[k] : k \in 1..Len(sq)}

Permute(sq, p) == [k \in 1..Len(sq) |-> sq[p[k]]]

\* C4: whatever the order of the records, the aggregation yields the same
\* set of edges, with the same values and fiscal-year sets.
C4_OrderInvariant ==
    sk_pc = "done" =>
        \A p \in Permutations(1..Len(df)) :
            SeqToSet(CreateSankey(Permute(df, p))) = SeqToSet(aggregated_flows)

\* records of which another order yields another edge list, and an edge that
\* collects two fiscal years
C4_Witness ==
    /\ sk_pc = "done"
    /\ \E p \in Permutations(1..Len(df)) : CreateSankey(Permute(df, p)) # aggregated_flows
    /\ \E i \in 1..Len(aggregated_flows) :
          Len(aggregated_flows[i].fiscal_years) >= 2

\* the baseline rows of one group
GroupRows(key) == {k \in 1..Len(df) : IsBaseline(df[k]) /\ GroupKey(df[k]) = key}

RECURSIVE SumBudget(_)
SumBudget(S) ==
    IF S = {} THEN 0
    ELSE LET k == CHOOSE x \in S : TRUE IN df[k].budget_amount + SumBudget(S \ {k})

BaselineKeys == {GroupKey(df[k]) : k \in {j \in 1..Len(df) : IsBaseline(df[j])}}

\* the baseline flows generated for a group
GroupEdges(key) ==
    {k \in 1..Len(flows) :
        /\ flows[k].type = "baseline"
        /\ <<flows[k].source, flows[k].target, flows[k].fiscal_year>> = key}

\* C5: a (category, branch, fiscal_year) group of baseline records yields a
\* baseline flow, valued with the group's sum, exactly when that sum is
\* above 50,000; a group summing to 50,000 yields none.
C5_MaterialityFloor ==
    sk_pc \in {"aggregate", "done"} =>
        /\ \A key \in BaselineKeys :
              /\ (GroupEdges(key) # {}) <=> (SumBudget(GroupRows(key)) > 50000)
              /\ Cardinality(GroupEdges(key)) <= 1
              /\ \A k \in GroupEdges(key) : flows[k].value = SumBudget(GroupRows(key))
        /\ \A k \in 1..Len(flows) :
              flows[k].type = "baseline" =>
                  <<flows[k].source, flows[k].target, flows[k].fiscal_year>> \in BaselineKeys

\* a group of 50,000 without a flow beside a group of 50,001 with one
C5_Witness ==
    /\ sk_pc = "done"
    /\ \E key \in BaselineKeys : SumBudget(GroupRows(key)) = 50000 /\ GroupEdges(key) = {}
    /\ \E key \in BaselineKeys : SumBudget(GroupRows(key)) = 50001 /\ GroupEdges(key) # {}

\* the candidate record of a section, by the extractors of the running parser
Candidate(start, end) ==
    IF variant = "csv"
    THEN [branch |-> ExtractBranch(ocr_text, start),
          category |-> ExtractCategory(ocr_text, start, end),
          amounts |-> ExtractAmounts(ocr_text, start, end)]
    ELSE [branch |-> FindBranch(ocr_text, start),
          category |-> FindCategory(ocr_text, start, end),
          amounts |-> ExtractAmounts(ocr_text, start, end)]

HasSignal(c) == c.branch # "" \/ c.category # "" \/ c.amounts # <<>>

RowsOf(start) == {k \in 1..Len(rows) : rows[k].start = start}

\* C6: a section yields a row exactly when its candidate record has a
\* branch, a category or an amount; the row carries the candidate's branch,
\* which may be empty.
C6_RowIffSignal ==
    seg_pc = "done" =>
        /\ \A k \in 1..Len(SectionSpans) :
              LET start == SectionSpans[k][1]
                  c == Candidate(start, SectionSpans[k][2])
              IN  /\ (RowsOf(start) # {}) <=> HasSignal(c)
                  /\ Cardinality(RowsOf(start)) <= 1
                  /\ \A r \in RowsOf(start) :
                        /\ rows[r].branch = c.branch
                        /\ rows[r].appropriation_category = c.category
        /\ \A r \in 1..Len(rows) :
              \E k \in 1..Len(SectionSpans) : SectionSpans[k][1] = rows[r].start

\* a section dropped for want of any signal, and a row with an empty branch
C6_Witness ==
    /\ seg_pc = "done"
    /\ \E k \in 1..Len(SectionSpans) : RowsOf(SectionSpans[k][1]) = {}
    /\ \E r \in 1..Len(rows) :
          rows[r].branch = "" /\ rows[r].program_base_congressional # <<"-">>

\* the branch of the marker nearest before pos within the window
NearestBranch(pos) ==
    LET w == {k \in 1..Len(ocr_text) :
                 /\ ocr_text[k].kind = "marker"
                 /\ Offset(ocr_text, k) >= pos - 1000
                 /\ Offset(ocr_text, k) + MatchLen(ocr_text[k]) <= pos}
    IN  IF w = {} THEN ""
        ELSE BranchName(ocr_text[CHOOSE k \in w : \A j \in w : j <= k].b)

\* C7: the branch of every row is that of the marker nearest before the
\* section start within 1000 characters, and empty when there is none.
C7_NearestMarkerWins ==
    \A r \in 1..Len(rows) : rows[r].branch = NearestBranch(rows[r].start)

\* the century rule: yy >= 90 is 19yy, any other yy is 20yy, yyyy is yyyy
CenturyRule(y) ==
    IF Len(y) = 2
    THEN (IF StrToInt(y) >= 90 THEN <<"1", "9">> \o y ELSE <<"2", "0">> \o y)
    ELSE y

\* the years the century rule gives for the groups of a match
CenturyYears(site, g) ==
    IF site = "reprog_header" THEN <<CenturyRule(g[1])>>
    ELSE <<CenturyRule(g[1]), CenturyRule(IF g[2] # <<>> THEN g[2] ELSE g[1])>>

\* C8: every extractor normalizes two-digit and four-digit fiscal years by
\* the century rule.
C8_CenturyRule ==
    (year_pc = "done" /\ \A k \in 1..Len(year_in) : Len(year_in[k]) \in {0, 2, 4})
        => year_out = CenturyYears(year_site, year_in)

\* the lines of a document by the stated rule, ties kept for `tie`
LinesByRule(doc, tie) ==
    LET b == ParseBaseline(doc.text, doc.fy)
        r == ParseReprog(doc.text)
    IN  IF doc.kind \in {"DD_1414", "Base_for_Reprogramming"} THEN b
        ELSE IF doc.kind \in {"_IR_", "_PA_"} THEN r
        ELSE IF Len(b) > Len(r) THEN b
        ELSE IF Len(r) > Len(b) THEN r
        ELSE IF tie = "baseline" THEN b ELSE r

RECURSIVE AllByRule(_, _)
AllByRule(docs, tie) ==
    IF docs = <<>> THEN <<>>
    ELSE (IF Head(docs).error \/ ~Head(docs).has_text THEN <<>>
          ELSE LinesByRule(Head(docs), tie)) \o AllByRule(Tail(docs), tie)

\* C9 as stated: a document whose kind the filename does not give keeps the
\* result of the grammar with more records, the baseline result on a tie.
C9_TieKeepsBaseline ==
    all_lines = AllByRule(SubSeq(ocr_results, 1, res_i - 1), "baseline")

\* C9 amended: a document whose kind the filename does not give keeps the
\* result of the grammar with more records, the reprogramming-action result
\* on a tie.
C9_TieKeepsReprog ==
    all_lines = AllByRule(SubSeq(ocr_results, 1, res_i - 1), "reprog")

\* a document of unknown kind on which both grammars yield one record has
\* been processed
C9_Witness ==
    /\ proc_pc = "done"
    /\ \E k \in 1..Len(ocr_results) :
          /\ ocr_results[k].kind = "other"
          /\ ~ocr_results[k].error
          /\ Len(ParseBaseline(ocr_results[k].text, ocr_results[k].fy)) = 1
          /\ Len(ParseReprog(ocr_results[k].text)) = 1

IsDigit(c) == c \in {"0", "1", "2", "3", "4", "5", "6", "7", "8", "9"}

\* the digits of a matched amount, grouping commas and sign left out
Magnitude(g5) == StrToInt(SelectSeq(g5, IsDigit))

\* C10 as stated: the amount is negative and the direction 'decrease' exactly
\* when the matched amount holds a '-', it is positive with direction
\* 'increase' otherwise, its magnitude is that of the digits, and the
\* direction is 'increase' exactly when the amount is >= 0.
C10_SignIffDirection ==
    \A k \in 1..Len(reprog_lines) :
        LET r == reprog_lines[k] IN
        /\ (r.reprogramming_amount < 0) <=> StrHas(r.g5, "-")
        /\ (r.direction = "decrease") <=> StrHas(r.g5, "-")
        /\ r.direction \in {"increase", "decrease"}
        /\ Abs(r.reprogramming_amount) = Magnitude(r.g5)
        /\ (r.direction = "increase") <=> (r.reprogramming_amount >= 0)

\* C10 amended: the direction is 'decrease' exactly when the matched amount
\* holds a '-' and 'increase' otherwise; the amount is the magnitude of the
\* digits, negated for a decrease, so that it is negative exactly when the
\* amount holds a '-' and the magnitude is not zero; the direction is
\* 'increase' exactly when the amount is >= 0 unless the magnitude is zero.
C10_SignFollowsDirection ==
    \A k \in 1..Len(reprog_lines) :
        LET r == reprog_lines[k] IN
        /\ (r.direction = "decrease") <=> StrHas(r.g5, "-")
        /\ r.direction \in {"increase", "decrease"}
        /\ r.reprogramming_amount
               = (IF StrHas(r.g5, "-") THEN 0 - Magnitude(r.g5) ELSE Magnitude(r.g5))
        /\ (r.reprogramming_amount < 0) <=> (StrHas(r.g5, "-") /\ Magnitude(r.g5) # 0)
        /\ Magnitude(r.g5) # 0 =>
              ((r.direction = "increase") <=> (r.reprogramming_amount >= 0))

\* a decrease of zero beside an increase
\* that carries no sign
C10_Witness ==
    /\ reprog_pc = "done"
    /\ \E k \in 1..Len(reprog_lines) :
          reprog_lines[k].direction = "decrease" /\ reprog_lines[k].reprogramming_amount = 0
    /\ \E k \in 1..Len(reprog_lines) :
          ~StrHas(reprog_lines[k].g5, "+") /\ reprog_lines[k].direction = "increase"

ScaleWords == {"thousand", "million", "billion"}

\* strip_scale: the string without its scale word, whatever its case
StripScale(s) == SelectSeq(s, LAMBDA c : Lower(c) \notin ScaleWords)

\* digits with grouping commas and at most one decimal point, a digit first
IsNumeral(t) ==
    /\ t # <<>>
    /\ Head(t) \in Digits
    /\ \A k \in 1..Len(t) : t[k] \in Digits \cup {",", "."}
    /\ Cardinality({k \in 1..Len(t) : t[k] = "."}) <= 1
    /\ \A j, k \in 1..Len(t) : (t[j] = "." /\ t[k] = ",") => k < j

\* the number of an amount string: what is left without blanks, a leading
\* currency symbol and a trailing scale word
NumeralOf(s) ==
    LET t == StrRemove(s, " ")
        u == IF t # <<>> /\ Head(t) = "$" THEN Tail(t) ELSE t
    IN  IF u # <<>> /\ Lower(u[Len(u)]) \in ScaleWords
        THEN SubSeq(u, 1, Len(u) - 1) ELSE u

\* a valid amount string: an optional currency symbol, a numeral and an
\* optional scale word after it
ValidAmount(s) == IsNumeral(NumeralOf(s))

\* the value of a numeral, grouping commas dropped
NumeralValue(t) ==
    LET d == StrRemove(t, ",")
        dots == {k \in 1..Len(d) : d[k] = "."}
        n == IF dots = {} THEN Len(d) + 1 ELSE CHOOSE k \in dots : TRUE
    IN  Norm(FALSE, StrToInt(SubSeq(d, 1, n - 1) \o SubSeq(d, n + 1, Len(d))),
             0 - (Len(d) - Min2(n, Len(d))))

\* C11: parse_amount of the enhanced scraper applies the scale word of its
\* input.  For every valid amount string s, the result for s equals the
\* result for s without its scale word times 1,000,000 when s holds
\* "million", times 1,000 for "thousand", times 1,000,000,000 for "billion"
\* and times 1 when s holds no scale word; and the result for the string
\* without scale word is the value of its numeral with the grouping commas
\* and the currency symbol stripped.
C11_ScaleWordApplied ==
    amount_variant = "enhanced" =>
        \A k \in 1..Len(amount_parsed) :
            LET s == amount_matches[k] IN
            ValidAmount(s) =>
                /\ ParseAmountEnhanced(StripScale(s)) = NumeralValue(NumeralOf(s))
                /\ HasWord(s, "million") =>
                      amount_parsed[k] = Scale(ParseAmountEnhanced(StripScale(s)), 6)
                /\ HasWord(s, "thousand") =>
                      amount_parsed[k] = Scale(ParseAmountEnhanced(StripScale(s)), 3)
                /\ HasWord(s, "billion") =>
                      amount_parsed[k] = Scale(ParseAmountEnhanced(StripScale(s)), 9)
                /\ StripScale(s) = s =>
                      amount_parsed[k] = NumeralValue(NumeralOf(s))

\* "$5Million" has been parsed: the result is 5,000,000
C11_Witness ==
    /\ amount_variant = "enhanced"
    /\ Len(amount_parsed) = 1
    /\ amount_matches[1] = <<"$", "5", "Million">>
    /\ ValidAmount(amount_matches[1])
    /\ amount_parsed[1] = [none |-> FALSE, neg |-> FALSE, m |-> 5, e |-> 6]

\* a number can be read from the string: it holds a digit
Reduces(s) == \E k \in 1..Len(s) : s[k] \in Digits

\* the matches whose parse gave an amount the loop keeps
KeptMatches == {k \in 1..Len(amount_parsed) : PositiveAmount(amount_parsed[k])}

SignedAmount(amt) ==
    IF StrHas(amt, "-") THEN 0 - StrToInt(StrRemove(StrRemove(amt, ","), "-"))
    ELSE StrToInt(StrRemove(amt, ","))

\* the largest of the numbers of a line, signs as written
MaxSigned(amts) == MaxOf([k \in 1..Len(amts) |-> SignedAmount(amts[k])])

\* the largest of the absolute values of the numbers of a line
MaxAbs(amts) == MaxOf([k \in 1..Len(amts) |-> Abs(SignedAmount(amts[k]))])

\* a data line: long enough, no appropriation title, no Budget Activity
\* header, no subtotal, with a number and with a line item text that is no
\* header
IsDataLine(line) ==
    /\ line.len >= 10
    /\ line.approp = <<>>
    /\ line.ba = <<>>
    /\ ~line.subtotal
    /\ line.amounts # <<>>
    /\ line.text.len >= 5
    /\ ~(line.text.upper /\ line.text.len < 15)

\* line n is a qualifying data line: a data line under an appropriation
\* title whose largest number, signs dropped, reaches 1,000
Qualifies(n) ==
    /\ IsDataLine(text_lines[n])
    /\ PointerAt(n) # <<None, None>>
    /\ MaxAbs(text_lines[n].amounts) >= 1000

RecordsOfLine(n) == {k \in 1..Len(lines) : lines[k].line_no = n}

\* every scanned line has one record when it qualifies and none otherwise,
\* each record with the line item text cut to 100 characters
OneRecordPerLine ==
    \A n \in 1..(line_i - 1) :
        /\ Cardinality(RecordsOfLine(n)) = (IF Qualifies(n) THEN 1 ELSE 0)
        /\ \A k \in RecordsOfLine(n) :
              /\ lines[k].program_element.len = Min2(text_lines[n].text.len, 100)
              /\ lines[k].program_element.len <= 100

\* C13 as stated: every qualifying baseline data line yields exactly one
\* record whose program_element is the leading text of the line cut to at
\* most 100 characters and whose budget_amount is the maximum of the numbers
\* of the line, signs included as written.
C13_MaxOfSignedNumbers ==
    scan_pc \in {"scan", "done"} =>
        /\ OneRecordPerLine
        /\ \A k \in 1..Len(lines) :
              lines[k].budget_amount = MaxSigned(text_lines[lines[k].line_no].amounts)

\* C13 amended: every qualifying baseline data line yields exactly one record
\* whose program_element is the leading text of the line cut to at most 100
\* characters and whose budget_amount is the maximum of the absolute values
\* of the numbers of the line; a '-' on the line is kept in is_decrease only.
C13_MaxOfAbsoluteValues ==
    scan_pc \in {"scan", "done"} =>
        /\ OneRecordPerLine
        /\ \A k \in 1..Len(lines) :
              LET amts == text_lines[lines[k].line_no].amounts IN
              /\ lines[k].budget_amount = MaxAbs(amts)
              /\ lines[k].budget_amount >= 0
              /\ lines[k].is_decrease <=> (\E j \in 1..Len(amts) : StrHas(amts[j], "-"))

\* a line of 120 characters of text and the line "Underexecution of strength
\* -15,425" have each given their record
C13_Witness ==
    /\ scan_pc = "done"
    /\ Len(lines) = 2
    /\ \E k \in 1..2 : /\ text_lines[lines[k].line_no] = LineLongText
                       /\ lines[k].program_element.len = 100
    /\ \E k \in 1..2 : /\ text_lines[lines[k].line_no] = LineDataNeg
                       /\ lines[k].budget_amount = 15425
                       /\ lines[k].is_decrease

\* the first number of a line
FirstNumber(line) == Abs(SignedAmount(line.amounts[1]))

\* C14 as stated: a data line whose first number is below 1,000 in absolute
\* value produces no record, whatever other numbers follow it on the line.
C14_FirstNumberFloor ==
    scan_pc \in {"scan", "done"} =>
        \A k \in 1..Len(lines) : FirstNumber(text_lines[lines[k].line_no]) >= 1000

\* C14 amended: a data line whose largest number is below 1,000 in absolute
\* value produces no record; a data line under an appropriation title whose
\* first number is below 1,000 still produces its record when a later number
\* of the line reaches 1,000.
C14_LargestNumberFloor ==
    scan_pc \in {"scan", "done"} =>
        /\ \A k \in 1..Len(lines) : MaxAbs(text_lines[lines[k].line_no].amounts) >= 1000
        /\ \A n \in 1..(line_i - 1) :
              (/\ IsDataLine(text_lines[n])
               /\ PointerAt(n) # <<None, None>>
               /\ FirstNumber(text_lines[n]) < 1000
               /\ MaxAbs(text_lines[n].amounts) >= 1000)
              => RecordsOfLine(n) # {}

\* under an appropriation title, "Reference code 0,012" has been scanned and
\* gave no record, "Footnote marker 0,012 see 3,000" gave one
C14_Witness ==
    /\ scan_pc = "done"
    /\ \E n \in 1..Len(text_lines) :
          /\ text_lines[n] = LineSmall
          /\ PointerAt(n) # <<None, None>>
          /\ RecordsOfLine(n) = {}
    /\ \E k \in 1..Len(lines) :
          /\ text_lines[lines[k].line_no] = LineSmallFirst
          /\ lines[k].budget_amount = 3000

\* the weight of a reprogramming record
Weight(row) == IF row.reprogramming_amount < 0 THEN 0 - row.reprogramming_amount
               ELSE row.reprogramming_amount

\* the reprogramming records among the first n rows
ReprogRows(n) == {k \in 1..n : df[k].type = "reprogramming_action"}

\* the flows of one reprogramming record: its place among the flows of the
\* first phase is the number of flows of the records before it
FlowsBefore(k) ==
    Cardinality(ReprogRows(k - 1))
    + Cardinality({j \in ReprogRows(k - 1) : df[j].budget_activity_title.head # ""})

\* the number of rows the first phase has processed
RowsDone == IF sk_pc = "reprog" THEN sk_i - 1 ELSE Len(df)

\* C15: for every reprogramming_action record create_sankey_data generates a
\* category-to-branch flow weighted with the absolute value of the
\* reprogramming amount and, exactly when the record has a non-empty
\* budget-activity title, a second branch-to-activity flow of the same weight
\* whose target is the first 40 characters of the title; a record without
\* title generates the first flow only, and no other flow is generated for
\* the reprogramming records.
C15_ReprogFlows ==
    sk_pc \in {"reprog", "aggregate", "done"} =>
        /\ \A k \in ReprogRows(RowsDone) :
              LET at == FlowsBefore(k)
                  titled == df[k].budget_activity_title.head # ""
              IN  /\ Len(flows) >= at + (IF titled THEN 2 ELSE 1)
                  /\ flows[at + 1].type = "category_to_branch"
                  /\ flows[at + 1].source = df[k].appropriation_category
                  /\ flows[at + 1].target = df[k].branch
                  /\ flows[at + 1].value = Weight(df[k])
                  /\ titled =>
                        /\ flows[at + 2].type = "branch_to_activity"
                        /\ flows[at + 2].source = df[k].branch
                        /\ flows[at + 2].target = df[k].budget_activity_title.head
                        /\ flows[at + 2].value = Weight(df[k])
        /\ Cardinality({i \in 1..Len(flows) : flows[i].type # "baseline"})
              = FlowsBefore(RowsDone + 1)

\* a record whose title is longer than 40 characters has given its two
\* flows and a record without title its single flow
C15_Witness ==
    /\ sk_pc = "done"
    /\ \E k \in ReprogRows(Len(df)) :
          /\ df[k].budget_activity_title.tail # ""
          /\ flows[FlowsBefore(k) + 2].target = df[k].budget_activity_title.head
          /\ flows[FlowsBefore(k) + 2].value = 300
    /\ \E k \in ReprogRows(Len(df)) :
          /\ df[k].budget_activity_title.head = ""
          /\ df[k].reprogramming_amount < 0
          /\ flows[FlowsBefore(k) + 1].value = 1500
          /\ FlowsBefore(k + 1) = FlowsBefore(k) + 1

\* a list without repeated entries
NoRepeats(l) == \A i, j \in 1..Len(l) : l[i] = l[j] => i = j

\* the fiscal years of the flows that share the key of edge e
YearsOfKey(e) == {flows[k].fiscal_year : k \in {j \in 1..Len(flows) : FlowKey(flows[j]) = EdgeKey(e)}}

\* C16: each aggregated edge keeps all the fiscal years of the flows that
\* contributed to it, one entry per distinct year, and the metadata agrees
\* with the edge list: total_flows is the number of edges, total_value is the
\* sum of the edge values, which is the sum of the values of all flows before
\* aggregation, and metadata fiscal_years is the union of the edges'
\* fiscal years.
C16_YearsAndMetadata ==
    sk_pc = "done" =>
        /\ \A i \in 1..Len(aggregated_flows) :
              /\ SeqToSet(aggregated_flows[i].fiscal_years) = YearsOfKey(aggregated_flows[i])
              /\ NoRepeats(aggregated_flows[i].fiscal_years)
        /\ metadata.total_flows = Len(aggregated_flows)
        /\ metadata.total_value
              = SumValues(aggregated_flows, 1..Len(aggregated_flows))
        /\ metadata.total_value = SumValues(flows, 1..Len(flows))
        /\ SeqToSet(metadata.fiscal_years)
              = UNION {SeqToSet(aggregated_flows[i].fiscal_years) :
                       i \in 1..Len(aggregated_flows)}
        /\ NoRepeats(metadata.fiscal_years)

\* an edge that sums flows of two fiscal years, among several edges and more
\* flows than edges
C16_Witness ==
    /\ sk_pc = "done"
    /\ Len(aggregated_flows) >= 2
    /\ Len(flows) > Len(aggregated_flows)
    /\ \E i \in 1..Len(aggregated_flows) : Len(aggregated_flows[i].fiscal_years) = 2
    /\ metadata.total_flows = Len(aggregated_flows)
    /\ metadata.total_value > 0
    /\ Len(metadata.fiscal_years) >= 2

\* a bad document: a result that carries an 'error' or has no text
Bad(doc) == doc.error \/ ~doc.has_text

\* the results without the bad documents
WithoutBad(docs) == SelectSeq(docs, LAMBDA d : ~Bad(d))

\* the file names of the bad documents among docs
BadFiles(docs) == {docs[k].file : k \in {j \in 1..Len(docs) : Bad(docs[j])}}

RECURSIVE Copies(_, _)
\* sq repeated k times
Copies(k, sq) == IF k = 0 THEN <<>> ELSE sq \o Copies(k - 1, sq)

\* how often the result d occurs in docs
Count(d, docs) == Cardinality({i \in 1..Len(docs) : docs[i] = d})

\* the value of the edge of `edges` under the key, 0 if there is none
EdgeWeight(edges, key) ==
    IF \E j \in 1..Len(edges) : EdgeKey(edges[j]) = key
    THEN (edges[CHOOSE j \in 1..Len(edges) : EdgeKey(edges[j]) = key]).value
    ELSE 0

\* the edges that come from reprogramming rows
ReprogEdges(edges) == SelectSeq(edges, LAMBDA e : e.type # "baseline")

\* the edges one document gives when it is processed alone
SingleEdges(d) == ReprogEdges(CreateSankey(ProcessAll(<<d>>)))

\* C18: the assembler performs no deduplication across documents.  A list
\* that is the same document k times yields the records of the document k
\* times over, in input order; and in any list in which a document occurs k
\* times, every reprogramming edge the document gives alone has, in the
\* aggregated output, k times its single-document weight on top of what the
\* other documents of the list give to the same edge.
C18_RepeatedDocumentAddsUp ==
    /\ (proc_pc = "done" /\ ocr_results # <<>>
        /\ \A i \in 1..Len(ocr_results) : ocr_results[i] = ocr_results[1])
       => all_lines = Copies(Len(ocr_results), ProcessAll(<<ocr_results[1]>>))
    /\ sk_pc = "done" =>
          \A i \in 1..Len(ocr_results) :
             LET d == ocr_results[i]
                 k == Count(d, ocr_results)
                 others == SelectSeq(ocr_results, LAMBDA x : x # d)
                 single == SingleEdges(d)
             IN  \A j \in 1..Len(single) :
                    EdgeWeight(aggregated_flows, EdgeKey(single[j]))
                       = k * single[j].value
                         + EdgeWeight(CreateSankey(ProcessAll(others)),
                                      EdgeKey(single[j]))

\* the same document with line items was fed twice, and an edge of the
\* output weighs twice what the document gives alone
C18_Witness ==
    /\ sk_pc = "done"
    /\ Len(ocr_results) = 2
    /\ ocr_results[1] = ocr_results[2]
    /\ Len(all_lines) = 2 * Len(ProcessAll(<<ocr_results[1]>>))
    /\ \E j \in 1..Len(SingleEdges(ocr_results[1])) :
          LET e == SingleEdges(ocr_results[1])[j] IN
          /\ e.value > 0
          /\ EdgeWeight(aggregated_flows, EdgeKey(e)) = 2 * e.value

\* C20: the pipeline is deterministic.  The second run of
\* process_all_documents and create_sankey_data on the same list of results
\* gives the records of the first run, in the same order and with the same
\* fields, and the flow graph of the first run: the same edges in the same
\* order with the same values and fiscal-year lists, and the same metadata;
\* a first run that found no records is followed by a second that finds none.
\* The order in which a set of fiscal years is enumerated is free in each run.
C20_SecondRunRepeatsFirst ==
    run_no = 2 =>
       /\ proc_pc = "done" => all_lines = first_lines
       /\ sk_pc = "done" =>
             /\ df = first_lines
             /\ aggregated_flows = first_flows
             /\ metadata = first_metadata
       /\ main_pc = "failed" => first_lines = <<>> /\ first_flows = <<>>
       /\ main_pc = "done" => first_lines # <<>>

\* the second run has ended on results that gave several records and an edge
\* with more than one fiscal year
C20_Witness ==
    /\ run_no = 2
    /\ main_pc = "done"
    /\ Len(first_lines) >= 2
    /\ \E k \in 1..Len(first_flows) : Len(first_flows[k].fiscal_years) >= 2
    /\ Len(first_metadata.fiscal_years) >= 2

\* the text holds nothing but white space
Blank(t) == \A i \in 1..Len(t) : t[i] \in WhiteSpace

\* the confidences the engine reported for the words it was confident of,
\* and the default for a page read without confidence data
ReportedConfidences(pages) ==
    Concat([k \in 1..Len(pages) |->
               IF pages[k].data_ok
               THEN LET kept == SelectSeq(pages[k].words,
                                          LAMBDA w : w.conf > ConfidenceFloor)
                    IN  [j \in 1..Len(kept) |-> kept[j].conf]
               ELSE <<DefaultConfidence>>])

\* the mean of the reported confidences, 0 when there is none
MeanReported(pages) ==
    LET c == ReportedConfidences(pages) IN
    IF c = <<>> THEN Frac(0, 1) ELSE Frac(Sum(c), Len(c))

\* 0 <= x <= 100
InPercentRange(x) == 0 <= x.num /\ x.num <= 100 * x.den

\* C19: provenance follows the acquisition path of extract_text_hybrid.
\* Direct extraction that returns text other than white space gives the
\* method 'text', that text and the confidence 100; direct extraction that
\* returns blank text gives the method 'ocr' and the confidence the OCR
\* returned, which is the mean of the confidences the engine reported (0 when
\* it reported none or broke off); an exception in the direct extraction gives
\* 'failed', no text and the confidence 0.  A record carries the method and
\* the confidence of the extraction, the confidence is within [0, 100], and
\* a document whose extracted text is blank yields no record.
C19_ProvenanceFollowsPath ==
    /\ (hyb_pc \in {"process", "done"} /\ raised_in # "stat") =>
          LET r == hybrid_result
              direct == Concat(direct_pages)
          IN  /\ r.method \in {"text", "ocr", "failed"}
              /\ r.method = "text" <=> (raised_in # "direct" /\ ~Blank(direct))
              /\ r.method = "text" =>
                    r.text = direct /\ r.confidence = Frac(100, 1)
              /\ r.method = "ocr" <=> (raised_in # "direct" /\ Blank(direct))
              /\ r.method = "ocr" =>
                    r.confidence = IF raised_in = "ocr" THEN Frac(0, 1)
                                   ELSE MeanReported(ocr_pages)
              /\ r.method = "failed" <=> raised_in = "direct"
              /\ r.method = "failed" => r.text = <<>> /\ r.confidence = Frac(0, 1)
    /\ hyb_pc = "done" =>
          /\ dd_record.none <=> (raised_in = "stat" \/ Blank(hybrid_result.text))
          /\ ~dd_record.none =>
                /\ dd_record.extraction_method = hybrid_result.method
                /\ dd_record.extraction_method \in {"text", "ocr"}
                /\ dd_record.confidence_score = hybrid_result.confidence
                /\ InPercentRange(dd_record.confidence_score)

\* a record came out of the OCR of two pages, with a confidence that is a
\* mean and not one of the reported values
C19_Witness ==
    /\ hyb_pc = "done"
    /\ ~dd_record.none
    /\ dd_record.extraction_method = "ocr"
    /\ Len(ocr_pages) = 2
    /\ dd_record.confidence_score.den > 1

NearestCategory(start, end) ==
    LET w == {k \in 1..Len(ocr_text) :
                 /\ ocr_text[k].kind = "cat"
                 /\ start <= Offset(ocr_text, k)
                 /\ Offset(ocr_text, k) + MatchLen(ocr_text[k]) <= Min2(end, start + 500)}
    IN  IF w = {} THEN "" ELSE ocr_text[CHOOSE k \in w : \A j \in w : k <= j].c

\* C22: the category of every row is that of the category match nearest to
\* the anchor of its section among the matches within 500 characters of it;
\* of several categories in the window the nearest wins, and a match farther
\* than 500 characters from the anchor is never used.
C22_NearestCategoryWins ==
    \A r \in 1..Len(rows) :
        rows[r].appropriation_category = NearestCategory(rows[r].start, rows[r].end)

\* the amounts of the section text[start:end], by increasing offset
AmountsInOrder(start, end) ==
    LET S == {k \in 1..Len(ocr_text) :
                 /\ ocr_text[k].kind = "amt"
                 /\ start <= Offset(ocr_text, k)
                 /\ Offset(ocr_text, k) + MatchLen(ocr_text[k]) <= end}
        nth(n) == CHOOSE k \in S : Cardinality({j \in S : j < k}) = n - 1
    IN  [n \in 1..Cardinality(S) |-> ocr_text[nth(n)].s]

\* the four amount columns of a row, in the order of the CSV
AmountColumns(row) ==
    <<row.program_base_congressional, row.program_base_dod,
      row.reprogramming_amount, row.revised_program_total>>

\* C23: the amounts of a section go to the four amount columns by order of
\* appearance in the section text, the first to program_base_congressional,
\* the second to program_base_dod, the third to reprogramming_amount, the
\* fourth to revised_program_total; a column the section has no amount for
\* holds the literal "-", and amounts after the fourth go nowhere.
C23_AmountsByPosition ==
    \A r \in 1..Len(rows) :
        LET found == AmountsInOrder(rows[r].start, rows[r].end) IN
        \A k \in 1..4 :
            AmountColumns(rows[r])[k] = IF k <= Len(found) THEN found[k] ELSE <<"-">>

\* a row of a section with five amounts: the fifth is in no column
C23_Witness ==
    /\ seg_pc = "done"
    /\ \E r \in 1..Len(rows) :
          /\ Len(AmountsInOrder(rows[r].start, rows[r].end)) = 5
          /\ AmountColumns(rows[r])
                = << <<"1">>, <<"2", ",", "0", "0", "0">>, <<"3">>, <<"4">> >>

\* C24: no recognizer or field-extraction helper raises on any input text.
\* An unmatched pattern gives an empty result, and a marker in any form the
\* marker pattern admits, such as "AIR  FORCE INCREASE", gives a branch and
\* not an exception.
C24_NoRecognizerRaises ==
    /\ seg_pc # "raised"
    /\ seg_pc = "done" =>
          \A r \in 1..Len(rows) : rows[r].branch \in {"", "Army", "Navy", "Air Force"}

\* the lines before line n hold an appropriation-title line
TitleBefore(n) == \E j \in 1..(n - 1) : IsTitleLine(text_lines[j])

\* C25: in the baseline scan no record is emitted for a data line that comes
\* before the category pointer and the branch pointer have been set by an
\* appropriation-title line: while no title line has been scanned both
\* pointers are unset and the list of records is empty, and every record
\* holds a category and a branch that are not empty.
C25_NoRecordBeforeTitle ==
    scan_pc \in {"scan", "done"} =>
        /\ ~TitleBefore(line_i) =>
              /\ lines = <<>>
              /\ ~Truthy(current_category)
              /\ ~Truthy(current_branch)
        /\ \A k \in 1..Len(lines) :
              /\ TitleBefore(lines[k].line_no)
              /\ lines[k].appropriation_category \notin {None, ""}
              /\ lines[k].branch \notin {None, ""}

\* the same data line stands before and after the first appropriation-title
\* line, and only the one after it gave a record
C25_Witness ==
    /\ scan_pc = "done"
    /\ Len(text_lines) = 3
    /\ IsDataLine(text_lines[1])
    /\ IsTitleLine(text_lines[2])
    /\ text_lines[3] = text_lines[1]
    /\ Len(lines) = 1
    /\ lines[1].line_no = 3

IsBAHeader(line) == ~(line.len = 0 \/ line.len < 10) /\ line.approp = <<>> /\ line.ba # <<>>

\* the budget activity (number, title) of the last Budget Activity header
\* before line n, whatever appropriation it stood under
ActivityAt(n) ==
    LET heads == {j \in 1..(n - 1) : IsBAHeader(text_lines[j])}
    IN  IF heads = {} THEN <<"", "">>
        ELSE LET j == CHOOSE x \in heads : \A y \in heads : y <= x
             IN  <<text_lines[j].ba[1], text_lines[j].ba[2]>>

\* C26: in the baseline scan an appropriation-title line changes the category
\* and branch pointers only: the budget-activity number and title and the
\* list of records stay as they are.  Hence every record carries the budget
\* activity of the last Budget Activity header before its data line, also
\* when an appropriation title stands between the two.
C26_TitleKeepsActivity ==
    /\ [][(scan_pc = "scan" /\ line_i <= Len(text_lines)
           /\ IsTitleLine(text_lines[line_i]))
          => /\ current_ba_number' = current_ba_number
             /\ current_budget_activity' = current_budget_activity
             /\ lines' = lines]_vars
    /\ [](\A k \in 1..Len(lines) :
             <<lines[k].budget_activity_number, lines[k].budget_activity_title>>
                = ActivityAt(lines[k].line_no))

\* a record of the second appropriation with the budget activity of the first
C26_Witness ==
    /\ scan_pc = "done"
    /\ \E k \in 1..Len(lines) :
          LET n == lines[k].line_no IN
          /\ n >= 4
          /\ IsTitleLine(text_lines[n - 1])
          /\ IsBAHeader(text_lines[n - 2])
          /\ IsTitleLine(text_lines[n - 3])
          /\ lines[k].branch = NormBranch(text_lines[n - 1].approp[2])
          /\ lines[k].branch # NormBranch(text_lines[n - 3].approp[2])
          /\ lines[k].budget_activity_number = text_lines[n - 2].ba[1]

\* C27: once main has updated metadata['processed_files'], every entry it
\* holds pairs a PDF with the CSV generated from that PDF, and a PDF whose
\* OCR result carried an error is not marked csv_generated.
C27_EntriesPairOwnCsv ==
    pipe_pc \in {"save", "done"} =>
        \A k \in DOMAIN pdf_files :
            LET e == processed_files[pdf_files[k]]
            IN  /\ e # NoEntry => e.csv_path = OutputName(pdf_files[k])
                /\ pipeline_results[k].error => ~e.csv_generated

\* C28: over any sequence of runs on one metadata file, a file recorded in
\* downloaded_files with a hash and present on disk is never requested
\* again, a download that failed records nothing in downloaded_files, and
\* total_files is the number of entries of downloaded_files, in memory and
\* in the saved file.
C28_NoRefetchAndCount ==
    /\ [](scraper_pc = "get" =>
            LET f == new_pdfs[download_i].filename
            IN  ~(/\ scraper_metadata.downloaded_files[f] # NoDownload
                  /\ scraper_metadata.downloaded_files[f].hash # <<>>
                  /\ f \in disk))
    /\ [][scraper_metadata'.failed_downloads # scraper_metadata.failed_downloads
            => scraper_metadata'.downloaded_files = scraper_metadata.downloaded_files]_vars
    /\ [](/\ scraper_metadata.total_files = RecordedCount(scraper_metadata)
          /\ metadata_file.content.total_files = RecordedCount(metadata_file.content))

\* a second run has met again a recorded file that is still on disk, after a
\* download that failed
C28_Witness ==
    /\ scraper_pc = "done"
    /\ runs_done = 2
    /\ scraper_metadata.failed_downloads # <<>>
    /\ scraper_metadata.total_files >= 1
    /\ \E k \in DOMAIN pdfs :
          /\ Recorded(scraper_metadata, pdfs[k].filename)
          /\ Recorded(metadata_file.content, pdfs[k].filename)
          /\ pdfs[k].filename \in disk

RECURSIVE RuleRowsFrom(_, _, _)
RuleRowsFrom(text, spans, i) ==
    IF i > Len(spans) THEN <<>>
    ELSE RuleSectionRows(text, spans[i][1], spans[i][2]) \o RuleRowsFrom(text, spans, i + 1)

\* rule_csv_parser.parse_text (rule_csv_parser.py:95-133): the rows
ParseText(text) == RuleRowsFrom(text, ExtractSections(text), 1)

\* the columns of a row the two parsers fill from the text
RowFields(row) ==
    [branch |-> row.branch,
     appropriation_category |-> row.appropriation_category,
     amounts |-> AmountColumns(row)]

\* C29: CSVTransformer.parse_ocr_text and rule_csv_parser.parse_text return
\* the same rows for every text: the rows one parser has returned are, row
\* by row and column by column, the rows the other returns for that text.
C29_VariantsAgree ==
    seg_pc = "done" =>
        LET other == IF variant = "csv" THEN ParseText(ocr_text)
                     ELSE ParseOcrText(ocr_text)
        IN  /\ Len(rows) = Len(other)
            /\ \A k \in DOMAIN rows : RowFields(rows[k]) = RowFields(other[k])

\* C30: result['method'] of extract_from_pdf names what produced the text:
\* a text read by OCR, the fallback after a failed or short text extraction
\* included, comes with method 'ocr', method 'text_extraction' comes only
\* with a text of the direct extraction, and no result has both a text and
\* an 'error'.
C30_MethodNamesProducer ==
    extract_pc = "done" =>
        /\ \A k \in DOMAIN extract_result.text :
              /\ extract_result.text[k].src = "ocr" => extract_result.method = "ocr"
              /\ extract_result.method = "text_extraction"
                    => extract_result.text[k].src = "direct"
        /\ ~(extract_result.text # <<>> /\ extract_result.error)

====
